---- MODULE Spec2Model ----
(***************************************************************************)
(* ActionSMTP: SMTP front end that routes recipients to webhooks by        *)
(* domain, scores messages (DNSBL at connect, SpamAssassin at data) and    *)
(* forwards each message to the webhooks of its recipients.                *)
(*                                                                         *)
(* Strings are sequences of one-character strings, so that startsWith,     *)
(* endsWith, substring, split and toLowerCase are computed, not assumed.   *)
(***************************************************************************)
EXTENDS Integers, Sequences, FiniteSets, TLC

(***************************************************************************)
(* Bounds of the routing specification                                     *)
(***************************************************************************)
MaxDomLen == 3
MaxPatLen == 3
MaxRoutes == 2
MaxPatterns == 2

(***************************************************************************)
(* String helpers (JavaScript String methods)                              *)
(***************************************************************************)
Chars == {"a", "b", "A", ".", "*"}

StrsUpTo(n) == UNION {[1..k -> Chars] : k \in 0..n}

SeqsUpTo(S, n) == UNION {[1..k -> S] : k \in 0..n}

Range(s) == {s[i] : i \in DOMAIN s}

StartsWith(s, pre) ==
  Len(s) >= Len(pre) /\ SubSeq(s, 1, Len(pre)) = pre

EndsWith(s, suf) ==
  Len(s) >= Len(suf) /\ SubSeq(s, Len(s) - Len(suf) + 1, Len(s)) = suf

Substring(s, from) == SubSeq(s, from + 1, Len(s))

LowerChar(c) == IF c = "A" THEN "a" ELSE IF c = "B" THEN "b" ELSE c

ToLowerCase(s) == [i \in DOMAIN s |-> LowerChar(s[i])]

(***************************************************************************)
(* matchesDomain(emailDomain, pattern)                                     *)
(***************************************************************************)
matchesDomain_NoDot(emailDomain, pattern) ==
  IF pattern = emailDomain THEN TRUE
  ELSE IF pattern = <<"*">> THEN TRUE
  ELSE IF StartsWith(pattern, <<"*", ".">>)
       THEN LET baseDomain == Substring(pattern, 2)
            IN  emailDomain = baseDomain \/ EndsWith(emailDomain, baseDomain)
       ELSE FALSE

matchesDomain(emailDomain, pattern) ==
  IF pattern = emailDomain THEN TRUE
  ELSE IF pattern = <<"*">> THEN TRUE
  ELSE IF StartsWith(pattern, <<"*", ".">>)
       THEN LET baseDomain == Substring(pattern, 2)
            IN  emailDomain = baseDomain
                \/ EndsWith(emailDomain, <<".">> \o baseDomain)
       ELSE FALSE

(***************************************************************************)
(* findWebhookForDomain(domain): the two nested loops over config.webhooks *)
(* and webhook.domains.  The result is the position of the returned        *)
(* webhook in config.webhooks and of the pattern named in the debug line;  *)
(* route = 0 stands for the null result.                                   *)
(***************************************************************************)
NoMatch == [route |-> 0, pattern |-> 0]

RECURSIVE FirstPattern(_, _, _)
FirstPattern(domains, domain, j) ==
  IF j > Len(domains) THEN 0
  ELSE IF matchesDomain(domain, domains[j]) THEN j
  ELSE FirstPattern(domains, domain, j + 1)

RECURSIVE FindFrom(_, _, _)
FindFrom(webhooks, domain, i) ==
  IF i > Len(webhooks) THEN NoMatch
  ELSE LET j == FirstPattern(webhooks[i].domains, domain, 1)
       IN  IF j # 0 THEN [route |-> i, pattern |-> j]
           ELSE FindFrom(webhooks, domain, i + 1)

RECURSIVE FindLastFrom(_, _, _)
FindLastFrom(webhooks, domain, i) ==
  IF i < 1 THEN NoMatch
  ELSE LET j == FirstPattern(webhooks[i].domains, domain, 1)
       IN  IF j # 0 THEN [route |-> i, pattern |-> j]
           ELSE FindLastFrom(webhooks, domain, i - 1)

findWebhookMatch_Last(webhooks, domain) ==
  FindLastFrom(webhooks, domain, Len(webhooks))

findWebhookMatch(webhooks, domain) == FindFrom(webhooks, domain, 1)

\* the null result, as a record so that results compare
NoWebhook == [domains |-> <<>>, url |-> "", authUser |-> "", authPass |-> ""]

findWebhookForDomain(webhooks, domain) ==
  LET m == findWebhookMatch(webhooks, domain)
  IN  IF m.route = 0 THEN NoWebhook ELSE webhooks[m.route]

(***************************************************************************)
(* Program constants                                                       *)
(***************************************************************************)
DNSBL_SERVICES == <<"zen.spamhaus.org", "bl.spamcop.net">>

Zones == Range(DNSBL_SERVICES)

SpamThreshold == 5

SpamReject == 10

DnsblPenalty == 3

DefaultAuthUser == "actionmailbox"

(***************************************************************************)
(* Bounds of the session specification                                     *)
(***************************************************************************)
MaxRcptCmds == 2
MaxMsgs == 2

(***************************************************************************)
(* State                                                                   *)
(***************************************************************************)
VARIABLES
  rtDomain, rtPattern, rtWebhooks, rtMatches, rtFound,  \* routing spec
  scCall,              \* score composition applied to bounded inputs
  ordCall,             \* delivery aggregation applied to bounded inputs
  active, other,       \* two sessions: which one runs, the other one's state
  authCall,            \* route loading and Authorization header on bounded inputs
  ipCall,              \* the private-address test of checkDNSBL on bounded inputs
  hdrCall,             \* reject decision and addSpamHeaders on bounded inputs
  parseCall,           \* the response parser applied to bounded responses
  scorer,              \* one checkSpamAssassin promise and the events it saw
  config,              \* [spamCheck]; config.webhooks is Webhooks
  remoteAddress,       \* session.remoteAddress, split at "."
  conn,                \* "connecting" | "dnsbl" | "open" | "closed"
  lookups,             \* dns.resolve4 per zone
  dnsblChecked,        \* how checkDNSBL settled and with what
  connectReply,        \* argument of onConnect's callback
  dnsblResult,         \* session.dnsblResult
  webhooksByRecipient, \* session.webhooksByRecipient
  mailFrom,            \* session.envelope.mailFrom.address
  rcptTo,              \* session.envelope.rcptTo (addresses)
  rcptCount, lastRcpt, \* number of RCPT commands, last one and its reply
  msgCount,            \* number of DATA commands
  dataState,           \* "none" | "streaming" | "scoring" | "forwarding" | "done"
  stream,              \* "idle" | "open" | "ended" | "errored" | "closed"
  streamEnded,         \* the flag of onData's closure
  rawEmail,            \* the buffer handed to forwardEmail
  received,            \* collector.getRawEmail()
  sa,                  \* scorer round trip: [st, cause, parsed, result]
  spamResult,          \* spamResult of onData after score composition
  groups,              \* recipientsByWebhook in insertion order
  fwd,                 \* per group: "pending" | "ok" | "failed"
  fwdErrors,           \* per group: the error forwardToWebhook threw
  dataReplies,         \* arguments of onData's callback, in call order
  scorerCalls, deliveryRequests

rtVars == <<rtDomain, rtPattern, rtWebhooks, rtMatches, rtFound, scCall,
           ordCall, active, other, authCall, ipCall, hdrCall, parseCall,
           scorer>>

connVars == <<config, remoteAddress, conn, lookups, dnsblChecked,
              connectReply, dnsblResult>>

envVars == <<webhooksByRecipient, mailFrom, rcptTo, rcptCount, lastRcpt>>

dataVars == <<msgCount, dataState, stream, streamEnded, rawEmail, received,
              sa, spamResult, groups, fwd, fwdErrors, dataReplies,
              scorerCalls, deliveryRequests>>

vars == <<rtVars, connVars, envVars, dataVars>>

(***************************************************************************)
(* Replies handed to the transport engine: callback() is Accepted,         *)
(* callback(new Error("<code> <text>")) is Err(code, text)                 *)
(***************************************************************************)
Accepted == [code |-> 250, text |-> "ok"]

Err(code, text) == [code |-> code, text |-> text]

IsPermanent(r) == r.code >= 500 /\ r.code <= 599

IsTransient(r) == r.code >= 400 /\ r.code <= 499

(***************************************************************************)
(* Configuration of the session specification                              *)
(***************************************************************************)
Target1 == [url |-> "u1", authUser |-> DefaultAuthUser, authPass |-> "p1"]

Target2 == [url |-> "u1", authUser |-> DefaultAuthUser, authPass |-> "p2"]

MkWebhook(domains, t) ==
  [domains |-> domains, url |-> t.url, authUser |-> t.authUser,
   authPass |-> t.authPass]

Webhooks ==
  << MkWebhook(<< <<"a">> >>, Target1),
     MkWebhook(<< <<"*", ".", "a">> >>, Target2),
     MkWebhook(<< <<"b">> >>, Target1) >>

(***************************************************************************)
(* checkDNSBL(ip)                                                          *)
(***************************************************************************)
IP(a, b, c, d) == <<a, b, c, d>>

RemoteAddresses ==
  { IP("8", "8", "8", "8"), IP("10", "0", "0", "1"),
    IP("172", "200", "0", "1"), <<"not", "an", "ip">> }

\* ip.startsWith("<l1>.<l2>. ... .") on an address split at "."
StartsWithLabels(ip, labels) ==
  Len(ip) > Len(labels) /\ SubSeq(ip, 1, Len(labels)) = labels

IsPrivateIP(ip) ==
  \/ StartsWithLabels(ip, <<"10">>)
  \/ StartsWithLabels(ip, <<"192", "168">>)
  \/ StartsWithLabels(ip, <<"172">>)
  \/ ip = IP("127", "0", "0", "1")

Reverse(s) == [i \in DOMAIN s |-> s[Len(s) + 1 - i]]

\* the name handed to dns.resolve4 for one blacklist
LookupName(ip, blacklist) == Reverse(ip) \o <<blacklist>>

CleanResult == [isListed |-> FALSE, listings |-> <<>>]

NotChecked == [how |-> "none", value |-> CleanResult]

RECURSIVE FilterSeq(_, _, _)
FilterSeq(s, keep, i) ==
  IF i > Len(s) THEN <<>>
  ELSE (IF s[i] \in keep THEN <<s[i]>> ELSE <<>>) \o FilterSeq(s, keep, i + 1)

\* results.filter(r => r.listed).map(l => l.blacklist) once Promise.all
\* has every lookup settled
ListingsOf(lks) ==
  FilterSeq(DNSBL_SERVICES, {z \in Zones : lks[z] = "listed"}, 1)

ResultOf_Flagged(listings) == [isListed |-> TRUE, listings |-> listings]

ResultOf(listings) == [isListed |-> Len(listings) > 0, listings |-> listings]

\* The race of Promise.all(checks) against the 3 s timer, inside try/catch.
\* timedOut: the timer won the race.
checkDNSBL_Uncaught(lks, timedOut) ==
  IF timedOut
  THEN [how |-> "reject", value |-> CleanResult]
  ELSE [how |-> "resolve", value |-> ResultOf(ListingsOf(lks))]

checkDNSBL_Settle(lks, timedOut) ==
  IF timedOut
  THEN [how |-> "resolve", value |-> CleanResult]
  ELSE [how |-> "resolve", value |-> ResultOf(ListingsOf(lks))]

NoReply == [code |-> 0, text |-> ""]

(***************************************************************************)
(* onConnect: the .then/.catch continuation once checkDNSBL has settled    *)
(***************************************************************************)
onConnect_AcceptListed(settled) ==
  [reply |-> Accepted, store |-> TRUE, conn |-> "open"]

onConnect_StoreBeforeCheck(settled) ==
  IF settled.how = "resolve"
  THEN IF settled.value.isListed
       THEN [reply |-> Err(550, "IP address blacklisted"), store |-> TRUE,
             conn |-> "closed"]
       ELSE [reply |-> Accepted, store |-> TRUE, conn |-> "open"]
  ELSE [reply |-> Accepted, store |-> FALSE, conn |-> "open"]

onConnect_Then(settled) ==
  IF settled.how = "resolve"
  THEN IF settled.value.isListed
       THEN [reply |-> Err(550, "IP address blacklisted"), store |-> FALSE,
             conn |-> "closed"]
       ELSE [reply |-> Accepted, store |-> TRUE, conn |-> "open"]
  ELSE [reply |-> Accepted, store |-> FALSE, conn |-> "open"]

ConnectSettle(lks, timedOut) ==
  LET settled == checkDNSBL_Settle(lks, timedOut)
      k == onConnect_Then(settled)
  IN  /\ lookups' = lks
      /\ dnsblChecked' = settled
      /\ connectReply' = k.reply
      /\ dnsblResult' = IF k.store
                        THEN [set |-> TRUE, value |-> settled.value]
                        ELSE dnsblResult
      /\ conn' = k.conn

\* onConnect(session, callback)
Connect ==
  /\ conn = "connecting"
  /\ IF config.spamCheck
     THEN IF IsPrivateIP(remoteAddress)
          THEN /\ LET settled == [how |-> "resolve", value |-> CleanResult]
                      k == onConnect_Then(settled)
                  IN  /\ dnsblChecked' = settled
                      /\ connectReply' = k.reply
                      /\ dnsblResult' = IF k.store
                                        THEN [set |-> TRUE,
                                              value |-> settled.value]
                                        ELSE dnsblResult
                      /\ conn' = k.conn
               /\ UNCHANGED lookups
          ELSE /\ lookups' = [z \in Zones |-> "pending"]
               /\ conn' = "dnsbl"
               /\ UNCHANGED <<dnsblChecked, connectReply, dnsblResult>>
     ELSE /\ connectReply' = Accepted
          /\ conn' = "open"
          /\ UNCHANGED <<lookups, dnsblChecked, dnsblResult>>
  /\ UNCHANGED <<config, remoteAddress>>
  /\ UNCHANGED <<rtVars, envVars, dataVars>>

\* one dns.resolve4 settles: resolved (listed) or thrown (not listed)
DnsLookupDone(z, outcome) ==
  /\ conn = "dnsbl"
  /\ lookups[z] = "pending"
  /\ LET lks == [lookups EXCEPT ![z] = outcome]
     IN  IF \A y \in Zones : lks[y] # "pending"
         THEN ConnectSettle(lks, FALSE)
         ELSE /\ lookups' = lks
              /\ UNCHANGED <<dnsblChecked, connectReply, dnsblResult, conn>>
  /\ UNCHANGED <<config, remoteAddress>>
  /\ UNCHANGED <<rtVars, envVars, dataVars>>

DnsResolved == \E z \in Zones : DnsLookupDone(z, "listed")

DnsFailed == \E z \in Zones : DnsLookupDone(z, "failed")

\* the 3000 ms timer fires while some lookup is still pending
DnsblTimeout ==
  /\ conn = "dnsbl"
  /\ ConnectSettle(lookups, TRUE)
  /\ UNCHANGED <<config, remoteAddress>>
  /\ UNCHANGED <<rtVars, envVars, dataVars>>

(***************************************************************************)
(* Envelope stage: onMailFrom and onRcptTo                                 *)
(***************************************************************************)
Addr(local, domain) == local \o <<"@">> \o domain

Senders == { <<>>, Addr(<<"b">>, <<"b">>) }

RcptAddresses ==
  { Addr(<<"a">>, <<"a">>), Addr(<<"b">>, <<"b", ".", "a">>),
    Addr(<<"a">>, <<"b">>), Addr(<<"a">>, <<"A">>),
    Addr(<<"a">>, <<"a", "b">>), <<"a", "b">>,
    <<"a", "@", "a", "@", "a">> }

\* s.split(sep)
RECURSIVE SplitFrom(_, _, _, _)
SplitFrom(s, sep, i, cur) ==
  IF i > Len(s) THEN <<cur>>
  ELSE IF s[i] = sep THEN <<cur>> \o SplitFrom(s, sep, i + 1, <<>>)
  ELSE SplitFrom(s, sep, i + 1, Append(cur, s[i]))

Split(s, sep) == SplitFrom(s, sep, 1, <<>>)

NoSender == [set |-> FALSE, address |-> <<>>]

NoRcpt == [address |-> <<>>, reply |-> NoReply]

NoStage == dataState \in {"none", "done"}

\* what onRcptTo answers and records for one address
onRcptTo_NoLower(address) ==
  LET emailParts == Split(address, "@")
  IN  IF Len(emailParts) # 2
      THEN [reply |-> Err(550, "Invalid recipient address"),
            webhook |-> NoWebhook]
      ELSE LET domain == emailParts[2]
               webhook == findWebhookForDomain(Webhooks, domain)
           IN  IF webhook = NoWebhook
               THEN [reply |-> Err(550, "Domain not accepted here"),
                     webhook |-> NoWebhook]
               ELSE [reply |-> Accepted, webhook |-> webhook]

onRcptTo_LastPart(address) ==
  LET emailParts == Split(address, "@")
      domain == ToLowerCase(emailParts[Len(emailParts)])
      webhook == findWebhookForDomain(Webhooks, domain)
  IN  IF webhook = NoWebhook
      THEN [reply |-> Err(550, "Domain not accepted here"),
            webhook |-> NoWebhook]
      ELSE [reply |-> Accepted, webhook |-> webhook]

onRcptTo_Fallback(address) ==
  LET emailParts == Split(address, "@")
  IN  IF Len(emailParts) # 2
      THEN [reply |-> Err(550, "Invalid recipient address"),
            webhook |-> NoWebhook]
      ELSE LET domain == ToLowerCase(emailParts[2])
               webhook == findWebhookForDomain(Webhooks, domain)
           IN  IF webhook = NoWebhook
               THEN [reply |-> Accepted, webhook |-> Webhooks[1]]
               ELSE [reply |-> Accepted, webhook |-> webhook]

onRcptTo_Result(address) ==
  LET emailParts == Split(address, "@")
  IN  IF Len(emailParts) # 2
      THEN [reply |-> Err(550, "Invalid recipient address"),
            webhook |-> NoWebhook]
      ELSE LET domain == ToLowerCase(emailParts[2])
               webhook == findWebhookForDomain(Webhooks, domain)
           IN  IF webhook = NoWebhook
               THEN [reply |-> Err(550, "Domain not accepted here"),
                     webhook |-> NoWebhook]
               ELSE [reply |-> Accepted, webhook |-> webhook]

\* onRcptTo(address, session, callback); on acceptance the engine puts the
\* address into session.envelope.rcptTo, replacing an entry that is equal
\* to it up to case
RcptTo ==
  /\ conn = "open"
  /\ dataState = "none"
  /\ mailFrom.set
  /\ rcptCount < MaxRcptCmds
  /\ \E address \in RcptAddresses :
       LET r == onRcptTo_Result(address)
           same == {i \in DOMAIN rcptTo :
                      ToLowerCase(rcptTo[i]) = ToLowerCase(address)}
       IN  /\ lastRcpt' = [address |-> address, reply |-> r.reply]
           /\ IF r.reply = Accepted
              THEN /\ webhooksByRecipient' =
                        (address :> r.webhook) @@ webhooksByRecipient
                   /\ rcptTo' =
                        IF same = {} THEN Append(rcptTo, address)
                        ELSE [rcptTo EXCEPT
                                ![CHOOSE i \in same : \A j \in same : i <= j]
                                  = address]
              ELSE UNCHANGED <<webhooksByRecipient, rcptTo>>
  /\ rcptCount' = rcptCount + 1
  /\ UNCHANGED mailFrom
  /\ UNCHANGED <<rtVars, connVars, dataVars>>

(***************************************************************************)
(* Messages: sequences of tokens, CRLF being one token                     *)
(***************************************************************************)
Tok(k) == [k |-> k, v |-> <<>>]

CRLF == Tok("CRLF")

Messages ==
  { <<>>,
    <<Tok("h"), CRLF, Tok("b")>>,
    <<Tok("h"), CRLF, CRLF, Tok("b")>> }

\* emailStr.indexOf("\r\n\r\n"), 0-based, -1 when absent
IndexOfSeparator(m) ==
  LET hits == {i \in 1..(Len(m) - 1) : m[i] = CRLF /\ m[i + 1] = CRLF}
  IN  IF hits = {} THEN -1
      ELSE (CHOOSE i \in hits : \A j \in hits : i <= j) - 1

RECURSIVE JoinWith(_, _)
JoinWith(lines, sep) ==
  IF Len(lines) = 0 THEN <<>>
  ELSE IF Len(lines) = 1 THEN <<lines[1]>>
  ELSE <<lines[1], sep>> \o JoinWith(Tail(lines), sep)

addSpamHeaders_ReportedThreshold(email, dnsbl, spam) ==
  LET headerEnd == IndexOfSeparator(email)
      headers ==
        << [k |-> "X-Spam-Score", v |-> <<ToString(spam.score)>>],
           [k |-> "X-Spam-Status",
            v |-> <<IF spam.score >= spam.threshold THEN "Yes" ELSE "No",
                    ToString(spam.score), ToString(spam.threshold)>>],
           [k |-> "X-Spam-Tests", v |-> spam.tests] >>
        \o (IF dnsbl.isListed
            THEN << [k |-> "X-Spam-DNSBL", v |-> dnsbl.listings] >>
            ELSE <<>>)
  IN  IF headerEnd = -1 THEN email
      ELSE SubSeq(email, 1, headerEnd) \o <<CRLF>>
           \o JoinWith(headers, CRLF) \o <<CRLF>>
           \o Substring(email, headerEnd)

addSpamHeaders_Prepend(email, dnsbl, spam) ==
  LET headerEnd == IndexOfSeparator(email)
      headers ==
        << [k |-> "X-Spam-Score", v |-> <<ToString(spam.score)>>],
           [k |-> "X-Spam-Status",
            v |-> <<IF spam.score >= SpamThreshold THEN "Yes" ELSE "No",
                    ToString(spam.score), ToString(SpamThreshold)>>],
           [k |-> "X-Spam-Tests", v |-> spam.tests] >>
        \o (IF dnsbl.isListed
            THEN << [k |-> "X-Spam-DNSBL", v |-> dnsbl.listings] >>
            ELSE <<>>)
  IN  IF headerEnd = -1
      THEN JoinWith(headers, CRLF) \o <<CRLF>> \o email
      ELSE SubSeq(email, 1, headerEnd) \o <<CRLF>>
           \o JoinWith(headers, CRLF) \o <<CRLF>>
           \o Substring(email, headerEnd)

\* addSpamHeaders(rawEmail, dnsblResult, spamResult)
addSpamHeaders(email, dnsbl, spam) ==
  LET headerEnd == IndexOfSeparator(email)
      headers ==
        << [k |-> "X-Spam-Score", v |-> <<ToString(spam.score)>>],
           [k |-> "X-Spam-Status",
            v |-> <<IF spam.score >= SpamThreshold THEN "Yes" ELSE "No",
                    ToString(spam.score), ToString(SpamThreshold)>>],
           [k |-> "X-Spam-Tests", v |-> spam.tests] >>
        \o (IF dnsbl.isListed
            THEN << [k |-> "X-Spam-DNSBL", v |-> dnsbl.listings] >>
            ELSE <<>>)
  IN  IF headerEnd = -1 THEN email
      ELSE SubSeq(email, 1, headerEnd) \o <<CRLF>>
           \o JoinWith(headers, CRLF) \o <<CRLF>>
           \o Substring(email, headerEnd)

(***************************************************************************)
(* checkSpamAssassin: parsing of the response read until 'end'             *)
(* A response is its lines (split at CRLF); a line is described by what    *)
(* the parser looks at: whether it starts with "Spam:", whether the status *)
(* regular expression matches it and with what numbers, and its pieces     *)
(* between commas, trimmed ("" for an empty piece).                        *)
(***************************************************************************)
Line(startsSpam, matched, score, threshold, parts) ==
  [startsSpam |-> startsSpam, matched |-> matched, score |-> score,
   threshold |-> threshold, parts |-> parts]

LBanner == Line(FALSE, FALSE, 0, 0, <<"SPAMD/1.1 0 EX_OK">>)

LStatus(score) == Line(TRUE, TRUE, score, 5, <<"Spam: status">>)

LBadStatus == Line(TRUE, FALSE, 0, 0, <<"Spam: unknown">>)

LBlank == Line(FALSE, FALSE, 0, 0, <<"">>)

LTests == Line(FALSE, FALSE, 0, 0, <<"T1", "T2">>)

LNote == Line(FALSE, FALSE, 0, 0, <<"Bad header", "line">>)

Responses ==
  { <<LBanner, LStatus(2), LBlank, LTests>>,
    <<LBanner, LStatus(7), LBlank, LTests>>,
    <<LBanner, LStatus(10), LBlank, LTests>>,
    <<LBanner, LStatus(2)>>,
    <<LBanner, LBadStatus>>,
    <<LBanner, LNote>>,
    <<>> }

FirstIndex(s, P(_)) ==
  LET hits == {i \in DOMAIN s : P(s[i])}
  IN  IF hits = {} THEN 0 ELSE CHOOSE i \in hits : \A j \in hits : i <= j

RECURSIVE NonEmptyParts(_)
NonEmptyParts(parts) ==
  IF Len(parts) = 0 THEN <<>>
  ELSE (IF parts[1] = "" THEN <<>> ELSE <<parts[1]>>)
       \o NonEmptyParts(Tail(parts))

DefaultSpamResult ==
  [score |-> 0, threshold |-> SpamThreshold, tests |-> <<>>]

\* the body of client.on('end')
ParseResponse(lines) ==
  LET IsSpamLine(l) == l.startsSpam
      HasComma(l) == Len(l.parts) >= 2
      si == FirstIndex(lines, IsSpamLine)
      spamMatch == si # 0 /\ lines[si].matched
      ti == FirstIndex(lines, HasComma)
  IN  [score |-> IF spamMatch THEN lines[si].score ELSE 0,
       threshold |-> IF spamMatch THEN lines[si].threshold ELSE SpamThreshold,
       tests |-> IF ti = 0 THEN <<>> ELSE NonEmptyParts(lines[ti].parts)]

\* whether the response has a status line the parser can read
StatusParsable(lines) ==
  \E i \in DOMAIN lines :
     /\ lines[i].startsSpam /\ lines[i].matched
     /\ \A j \in 1..(i - 1) : ~lines[j].startsSpam

SaIdle == [st |-> "idle", cause |-> "none", parsable |-> FALSE,
           result |-> DefaultSpamResult, head |-> <<>>, sent |-> <<>>]

\* resolve(...) of checkSpamAssassin's promise for each deciding event
checkSpamAssassin_Resolve(cause, lines) ==
  IF cause = "end" THEN ParseResponse(lines) ELSE DefaultSpamResult

(***************************************************************************)
(* forwardEmail and forwardToWebhook                                       *)
(***************************************************************************)
WebhookKey_UrlOnly(w) == <<w.url>>

\* JSON.stringify({url, authUser, authPass}): equal exactly when the three
\* fields are equal
WebhookKey(w) == <<w.url, w.authUser, w.authPass>>

\* the loop over envelope.rcptTo that fills recipientsByWebhook
RECURSIVE GroupRecipients(_, _, _, _)
RECURSIVE GroupRecipients_Overwrite(_, _, _, _)
GroupRecipients_Overwrite(rcpts, wbr, i, acc) ==
  IF i > Len(rcpts) THEN acc
  ELSE IF rcpts[i] \notin DOMAIN wbr
       THEN GroupRecipients_Overwrite(rcpts, wbr, i + 1, acc)
       ELSE LET webhook == wbr[rcpts[i]]
                at == {g \in DOMAIN acc :
                         WebhookKey(acc[g].webhook) = WebhookKey(webhook)}
            IN  IF at = {}
                THEN GroupRecipients_Overwrite(rcpts, wbr, i + 1,
                       Append(acc, [webhook |-> webhook,
                                    recipients |-> <<rcpts[i]>>]))
                ELSE LET g == CHOOSE x \in at : TRUE
                     IN  GroupRecipients_Overwrite(rcpts, wbr, i + 1,
                           [acc EXCEPT ![g].recipients = <<rcpts[i]>>])

RECURSIVE GroupRecipients_NoMerge(_, _, _, _)
GroupRecipients_NoMerge(rcpts, wbr, i, acc) ==
  IF i > Len(rcpts) THEN acc
  ELSE IF rcpts[i] \notin DOMAIN wbr
       THEN GroupRecipients_NoMerge(rcpts, wbr, i + 1, acc)
       ELSE GroupRecipients_NoMerge(rcpts, wbr, i + 1,
              Append(acc, [webhook |-> wbr[rcpts[i]],
                           recipients |-> <<rcpts[i]>>]))

GroupRecipients(rcpts, wbr, i, acc) ==
  IF i > Len(rcpts) THEN acc
  ELSE IF rcpts[i] \notin DOMAIN wbr
       THEN GroupRecipients(rcpts, wbr, i + 1, acc)
       ELSE LET webhook == wbr[rcpts[i]]
                at == {g \in DOMAIN acc :
                         WebhookKey(acc[g].webhook) = WebhookKey(webhook)}
            IN  IF at = {}
                THEN GroupRecipients(rcpts, wbr, i + 1,
                       Append(acc, [webhook |-> webhook,
                                    recipients |-> <<rcpts[i]>>]))
                ELSE LET g == CHOOSE x \in at : TRUE
                     IN  GroupRecipients(rcpts, wbr, i + 1,
                           [acc EXCEPT ![g].recipients = Append(@, rcpts[i])])

\* error messages are sequences of words; includes(w) looks for a word
Includes(msg, w) == w \in Range(msg)

HttpError(status) == <<"HTTP", ToString(status)>>

FetchError(kind, url) ==
  IF kind = "timeout" THEN <<"network", "timeout", "at:", url>>
  ELSE <<"request", "to", url, "failed,", "reason:", "connect",
         "ECONNREFUSED">>

Statuses == {200, 204, 500}

ResponseOk(status) == status >= 200 /\ status <= 299

FailureKinds == {"timeout", "refused"}

\* one forwardToWebhook call: st is "pending", "ok" (returned true) or
\* "failed" (threw); status is the HTTP status received, 0 when none
Pending == [st |-> "pending", status |-> 0]

\* the catch block of the 'end' handler of onData
onData_Catch(msg) ==
  IF Includes(msg, "timeout")
  THEN Err(451, "Temporary failure, please retry")
  ELSE IF Includes(msg, "HTTP")
  THEN Err(451, "Webhook temporarily unavailable")
  ELSE Err(550, "Failed to process message")

(***************************************************************************)
(* The data stage as a record of the fields a step may change              *)
(***************************************************************************)
Cur ==
  [dataState |-> dataState, rawEmail |-> rawEmail, received |-> received,
   sa |-> sa, spamResult |-> spamResult, groups |-> groups, fwd |-> fwd,
   fwdErrors |-> fwdErrors, dataReplies |-> dataReplies,
   scorerCalls |-> scorerCalls, deliveryRequests |-> deliveryRequests]

SetData(d) ==
  /\ dataState' = d.dataState
  /\ rawEmail' = d.rawEmail
  /\ received' = d.received
  /\ sa' = d.sa
  /\ spamResult' = d.spamResult
  /\ groups' = d.groups
  /\ fwd' = d.fwd
  /\ fwdErrors' = d.fwdErrors
  /\ dataReplies' = d.dataReplies
  /\ scorerCalls' = d.scorerCalls
  /\ deliveryRequests' = d.deliveryRequests

\* callback(...) of onData
Reply(d, r) ==
  [d EXCEPT !.dataReplies = Append(@, r), !.dataState = "done"]

\* authPass of a route loaded without a password (null); the loader never
\* yields an empty string, which it turns into null
NullPass == ""

NoAuthorization == [present |-> FALSE, scheme |-> "", base64Of |-> ""]

forwardToWebhook_AlwaysAuth(webhookConfig) ==
  [present |-> TRUE, scheme |-> "Basic",
   base64Of |-> webhookConfig.authUser \o ":" \o webhookConfig.authPass]

\* the Authorization header of forwardToWebhook: base64Of is the string
\* handed to Buffer.from(...).toString('base64')
forwardToWebhook_Authorization(webhookConfig) ==
  IF webhookConfig.authPass # NullPass
  THEN [present |-> TRUE, scheme |-> "Basic",
        base64Of |-> webhookConfig.authUser \o ":" \o webhookConfig.authPass]
  ELSE NoAuthorization

\* one forwardToWebhook call up to its fetch: the request sent, pending
forwardToWebhook_Request(email, webhookConfig) ==
  [st |-> "pending", status |-> 0, body |-> email,
   authorization |-> forwardToWebhook_Authorization(webhookConfig)]

forwardEmail_NoRcptCheck(d, email) ==
  IF ~mailFrom.set \/ mailFrom.address = <<>>
  THEN Reply(d, onData_Catch(<<"Invalid", "sender", "address">>))
  ELSE LET gs == GroupRecipients(rcptTo, webhooksByRecipient, 1, <<>>)
       IN  IF Len(gs) = 0
           THEN Reply([d EXCEPT !.rawEmail = email], Accepted)
           ELSE [d EXCEPT !.rawEmail = email,
                          !.groups = gs,
                          !.fwd = [g \in DOMAIN gs |->
                                    forwardToWebhook_Request(email,
                                                             gs[g].webhook)],
                          !.fwdErrors = [g \in DOMAIN gs |-> <<>>],
                          !.deliveryRequests = @ + Len(gs),
                          !.dataState = "forwarding"]

RECURSIVE SeqOfSet(_)
SeqOfSet(S) ==
  IF S = {} THEN <<>>
  ELSE LET x == CHOOSE y \in S : TRUE IN <<x>> \o SeqOfSet(S \ {x})

forwardEmail_AllMapped(d, email) ==
  IF ~mailFrom.set \/ mailFrom.address = <<>>
  THEN Reply(d, onData_Catch(<<"Invalid", "sender", "address">>))
  ELSE IF Len(rcptTo) = 0
  THEN Reply(d, onData_Catch(<<"No", "recipients">>))
  ELSE LET stale == DOMAIN webhooksByRecipient \ Range(rcptTo)
           gs == GroupRecipients(rcptTo \o SeqOfSet(stale),
                                 webhooksByRecipient, 1, <<>>)
       IN  [d EXCEPT !.rawEmail = email,
                     !.groups = gs,
                     !.fwd = [g \in DOMAIN gs |->
                               forwardToWebhook_Request(email,
                                                        gs[g].webhook)],
                     !.fwdErrors = [g \in DOMAIN gs |-> <<>>],
                     !.deliveryRequests = @ + Len(gs),
                     !.dataState = "forwarding"]

forwardEmail_AnySender(d, email) ==
  IF Len(rcptTo) = 0
  THEN Reply(d, onData_Catch(<<"No", "recipients">>))
  ELSE LET gs == GroupRecipients(rcptTo, webhooksByRecipient, 1, <<>>)
       IN  IF Len(gs) = 0
           THEN Reply([d EXCEPT !.rawEmail = email], Accepted)
           ELSE [d EXCEPT !.rawEmail = email,
                          !.groups = gs,
                          !.fwd = [g \in DOMAIN gs |->
                                    forwardToWebhook_Request(email,
                                                             gs[g].webhook)],
                          !.fwdErrors = [g \in DOMAIN gs |-> <<>>],
                          !.deliveryRequests = @ + Len(gs),
                          !.dataState = "forwarding"]

\* forwardEmail up to "await Promise.all(forwardPromises)": validation,
\* grouping, and one forwardToWebhook (one fetch) per group
forwardEmail_Start(d, email) ==
  IF ~mailFrom.set \/ mailFrom.address = <<>>
  THEN Reply(d, onData_Catch(<<"Invalid", "sender", "address">>))
  ELSE IF Len(rcptTo) = 0
  THEN Reply(d, onData_Catch(<<"No", "recipients">>))
  ELSE LET gs == GroupRecipients(rcptTo, webhooksByRecipient, 1, <<>>)
       IN  IF Len(gs) = 0
           THEN Reply([d EXCEPT !.rawEmail = email], Accepted)
           ELSE [d EXCEPT !.rawEmail = email,
                          !.groups = gs,
                          !.fwd = [g \in DOMAIN gs |->
                                    forwardToWebhook_Request(email,
                                                             gs[g].webhook)],
                          !.fwdErrors = [g \in DOMAIN gs |-> <<>>],
                          !.deliveryRequests = @ + Len(gs),
                          !.dataState = "forwarding"]

RECURSIVE JoinStr(_, _)
JoinStr(strs, sep) ==
  IF Len(strs) = 0 THEN ""
  ELSE IF Len(strs) = 1 THEN strs[1]
  ELSE strs[1] \o sep \o JoinStr(Tail(strs), sep)

\* if (spamResult.score >= config.spamReject)
RejectsSpam_Strict(score) == score > SpamReject

RejectsSpam(score) == score >= SpamReject

ComposeScore_Flat(result, cached) ==
  IF cached.set /\ cached.value.isListed
  THEN [result EXCEPT
          !.score = @ + DnsblPenalty,
          !.tests = Append(@, "DNSBL_LISTED("
                                \o JoinStr(cached.value.listings, ",")
                                \o ")")]
  ELSE result

\* "Add DNSBL penalty to spam score": cached is session.dnsblResult,
\* [set |-> FALSE] when the session holds none
ComposeScore(result, cached) ==
  IF cached.set /\ cached.value.isListed
  THEN [result EXCEPT
          !.score = @ + DnsblPenalty * Len(cached.value.listings),
          !.tests = Append(@, "DNSBL_LISTED("
                                \o JoinStr(cached.value.listings, ",")
                                \o ")")]
  ELSE result

onData_AfterScore_Plain(d, result) ==
  LET composed == ComposeScore(result, dnsblResult)
      d1 == [d EXCEPT !.spamResult = composed]
  IN  IF RejectsSpam(composed.score)
      THEN Reply(d1, Err(550, "Message rejected as spam"))
      ELSE forwardEmail_Start(d1, d.received)

\* onData after "await checkSpamAssassin(rawEmail)": score composition,
\* reject decision, header augmentation, then forwardEmail
onData_AfterScore(d, result) ==
  LET composed == ComposeScore(result, dnsblResult)
      dnsbl == IF dnsblResult.set THEN dnsblResult.value ELSE CleanResult
      d1 == [d EXCEPT !.spamResult = composed]
  IN  IF RejectsSpam(composed.score)
      THEN Reply(d1, Err(550, "Message rejected as spam"))
      ELSE forwardEmail_Start(d1, addSpamHeaders(d.received, dnsbl, composed))

onData_End_EmptyTransient(d, email) ==
  LET d1 == [d EXCEPT !.received = email]
  IN  IF Len(email) = 0
      THEN Reply(d1, Err(451, "Empty message"))
      ELSE IF IndexOfSeparator(email) = -1
      THEN Reply(d1, Err(550, "Malformed message: missing headers"))
      ELSE IF config.spamCheck
      THEN [d1 EXCEPT !.sa = [SaIdle EXCEPT !.st = "connecting"],
                      !.scorerCalls = @ + 1,
                      !.dataState = "scoring"]
      ELSE forwardEmail_Start(d1, email)

onData_End_NoSeparatorCheck(d, email) ==
  LET d1 == [d EXCEPT !.received = email]
  IN  IF Len(email) = 0
      THEN Reply(d1, Err(550, "Empty message"))
      ELSE IF config.spamCheck
      THEN [d1 EXCEPT !.sa = [SaIdle EXCEPT !.st = "connecting"],
                      !.scorerCalls = @ + 1,
                      !.dataState = "scoring"]
      ELSE forwardEmail_Start(d1, email)

onData_End_AlwaysScore(d, email) ==
  LET d1 == [d EXCEPT !.received = email]
  IN  IF Len(email) = 0
      THEN Reply(d1, Err(550, "Empty message"))
      ELSE IF IndexOfSeparator(email) = -1
      THEN Reply(d1, Err(550, "Malformed message: missing headers"))
      ELSE [d1 EXCEPT !.sa = [SaIdle EXCEPT !.st = "connecting"],
                      !.scorerCalls = @ + 1,
                      !.dataState = "scoring"]

\* the 'end' handler of the message stream, up to its first await
onData_End(d, email) ==
  LET d1 == [d EXCEPT !.received = email]
  IN  IF Len(email) = 0
      THEN Reply(d1, Err(550, "Empty message"))
      ELSE IF IndexOfSeparator(email) = -1
      THEN Reply(d1, Err(550, "Malformed message: missing headers"))
      ELSE IF config.spamCheck
      THEN [d1 EXCEPT !.sa = [SaIdle EXCEPT !.st = "connecting"],
                      !.scorerCalls = @ + 1,
                      !.dataState = "scoring"]
      ELSE forwardEmail_Start(d1, email)

\* a fresh data stage
NoData ==
  [dataState |-> "none", rawEmail |-> <<>>, received |-> <<>>,
   sa |-> SaIdle, spamResult |-> [score |-> 0, threshold |-> 0, tests |-> <<>>],
   groups |-> <<>>, fwd |-> <<>>, fwdErrors |-> <<>>, dataReplies |-> <<>>]

\* onMailFrom(address, session, callback): every sender is accepted; the
\* engine starts a new transaction (empty rcptTo) holding the sender in
\* session.envelope.mailFrom
MailFrom ==
  /\ conn = "open"
  /\ NoStage
  /\ ~mailFrom.set \/ dataState = "done"
  /\ msgCount < MaxMsgs
  /\ \E a \in Senders : mailFrom' = [set |-> TRUE, address |-> a]
  /\ rcptTo' = <<>>
  /\ dataState' = NoData.dataState
  /\ rawEmail' = NoData.rawEmail
  /\ received' = NoData.received
  /\ sa' = NoData.sa
  /\ spamResult' = NoData.spamResult
  /\ groups' = NoData.groups
  /\ fwd' = NoData.fwd
  /\ fwdErrors' = NoData.fwdErrors
  /\ dataReplies' = NoData.dataReplies
  /\ stream' = "idle"
  /\ streamEnded' = FALSE
  /\ UNCHANGED <<msgCount, scorerCalls, deliveryRequests>>
  /\ UNCHANGED <<webhooksByRecipient, rcptCount, lastRcpt>>
  /\ UNCHANGED <<rtVars, connVars>>


\* onData(stream, session, callback), called within a transaction.  The
\* handler does not rely on the engine refusing DATA without an accepted
\* recipient: forwardEmail tests envelope.rcptTo itself.
DataStart ==
  /\ conn = "open"
  /\ dataState = "none"
  /\ mailFrom.set
  /\ msgCount < MaxMsgs
  /\ msgCount' = msgCount + 1
  /\ dataState' = "streaming"
  /\ stream' = "open"
  /\ streamEnded' = FALSE
  /\ UNCHANGED <<rawEmail, received, sa, spamResult, groups, fwd, fwdErrors,
                 dataReplies, scorerCalls, deliveryRequests>>
  /\ UNCHANGED <<rtVars, connVars, envVars>>

StreamError_NoGuard ==
  /\ stream \in {"open", "ended"}
  /\ stream' = IF stream = "open" THEN "errored" ELSE "closed"
  /\ streamEnded' = TRUE
  /\ SetData(Reply(Cur, Err(451, "Stream error")))
  /\ UNCHANGED msgCount
  /\ UNCHANGED <<rtVars, connVars, envVars>>

\* stream.on('error')
StreamError ==
  /\ stream \in {"open", "ended"}
  /\ stream' = IF stream = "open" THEN "errored" ELSE "closed"
  /\ IF ~streamEnded
     THEN /\ streamEnded' = TRUE
          /\ SetData(Reply(Cur, Err(451, "Stream error")))
     ELSE UNCHANGED <<streamEnded, rawEmail, received, sa, spamResult, groups,
                      fwd, fwdErrors, dataReplies, scorerCalls,
                      deliveryRequests, dataState>>
  /\ UNCHANGED msgCount
  /\ UNCHANGED <<rtVars, connVars, envVars>>

StreamEnd_NoGuard ==
  /\ stream \in {"open", "errored"}
  /\ stream' = IF stream = "open" THEN "ended" ELSE "closed"
  /\ streamEnded' = TRUE
  /\ \E email \in Messages : SetData(onData_End(Cur, email))
  /\ UNCHANGED msgCount
  /\ UNCHANGED <<rtVars, connVars, envVars>>

\* stream.on('end'), with the bytes the collector holds by then
StreamEnd ==
  /\ stream \in {"open", "errored"}
  /\ stream' = IF stream = "open" THEN "ended" ELSE "closed"
  /\ IF streamEnded
     THEN UNCHANGED <<streamEnded, rawEmail, received, sa, spamResult, groups,
                      fwd, fwdErrors, dataReplies, scorerCalls,
                      deliveryRequests, dataState>>
     ELSE /\ streamEnded' = TRUE
          /\ \E email \in Messages : SetData(onData_End(Cur, email))
  /\ UNCHANGED msgCount
  /\ UNCHANGED <<rtVars, connVars, envVars>>

\* lines.join('\r\n'), a line being a sequence of tokens
RECURSIVE JoinLines(_, _)
JoinLines(lines, sep) ==
  IF Len(lines) = 0 THEN <<>>
  ELSE IF Len(lines) = 1 THEN lines[1]
  ELSE lines[1] \o <<sep>> \o JoinLines(Tail(lines), sep)

SpamcHeaders_NoBlankLine(email) ==
  JoinLines(<< <<[k |-> "SYMBOLS", v |-> <<"SPAMC/1.5">>]>>,
               <<[k |-> "Content-length", v |-> <<ToString(Len(email))>>]>>,
               <<>> >>, CRLF)

\* the header block client.on('connect') writes first: the directive with
\* the protocol version, Content-length: rawEmail.length, and two empty
\* strings, joined by CRLF
SpamcHeaders(email) ==
  JoinLines(<< <<[k |-> "SYMBOLS", v |-> <<"SPAMC/1.5">>]>>,
               <<[k |-> "Content-length", v |-> <<ToString(Len(email))>>]>>,
               <<>>, <<>> >>, CRLF)

\* client.on('connect'): the request is written, its body being the
\* rawEmail checkSpamAssassin was called with; sa.head and sa.sent are the
\* two writes while the connection to the scorer lasts
SAConnect ==
  /\ dataState = "scoring"
  /\ sa.st = "connecting"
  /\ sa' = [sa EXCEPT !.st = "connected",
                       !.head = SpamcHeaders(received),
                       !.sent = received]
  /\ UNCHANGED <<msgCount, dataState, stream, streamEnded, rawEmail, received,
                 spamResult, groups, fwd, fwdErrors, dataReplies, scorerCalls,
                 deliveryRequests>>
  /\ UNCHANGED <<rtVars, connVars, envVars>>

\* the promise of checkSpamAssassin is resolved and onData resumes
SAResolved(cause, lines) ==
  LET result == checkSpamAssassin_Resolve(cause, lines)
      d == [Cur EXCEPT !.sa = [st |-> "resolved", cause |-> cause,
                               parsable |-> StatusParsable(lines),
                               result |-> result, head |-> <<>>,
                               sent |-> <<>>]]
  IN  SetData(onData_AfterScore(d, result))

\* client.on('end'): the peer closed after sending its response
SAEnd ==
  /\ dataState = "scoring"
  /\ sa.st = "connected"
  /\ \E lines \in Responses : SAResolved("end", lines)
  /\ UNCHANGED <<msgCount, stream, streamEnded>>
  /\ UNCHANGED <<rtVars, connVars, envVars>>

\* client.on('error')
SAError ==
  /\ dataState = "scoring"
  /\ sa.st \in {"connecting", "connected"}
  /\ SAResolved("error", <<>>)
  /\ UNCHANGED <<msgCount, stream, streamEnded>>
  /\ UNCHANGED <<rtVars, connVars, envVars>>

SATimeout_NoResolve ==
  /\ dataState = "scoring"
  /\ sa.st \in {"connecting", "connected"}
  /\ sa' = [sa EXCEPT !.st = "destroyed"]
  /\ UNCHANGED <<msgCount, dataState, stream, streamEnded, rawEmail, received,
                 spamResult, groups, fwd, fwdErrors, dataReplies, scorerCalls,
                 deliveryRequests>>
  /\ UNCHANGED <<rtVars, connVars, envVars>>

\* the 10000 ms timer of checkSpamAssassin
SATimeout ==
  /\ dataState = "scoring"
  /\ sa.st \in {"connecting", "connected"}
  /\ SAResolved("timeout", <<>>)
  /\ UNCHANGED <<msgCount, stream, streamEnded>>
  /\ UNCHANGED <<rtVars, connVars, envVars>>

\* Promise.all(forwardPromises) after one more forward has settled:
\* rejected by the first failure, fulfilled once every forward succeeded
PromiseAll_Any(states, g) ==
  IF states[g].st = "ok" THEN "fulfilled" ELSE "rejected"

PromiseAll(states, g) ==
  IF states[g].st = "failed" THEN "rejected"
  ELSE IF \A h \in DOMAIN states : states[h].st = "ok" THEN "fulfilled"
  ELSE "pending"

\* forwardToWebhook of group g settles: returns true or throws err
ForwardSettled(g, state, status, err) ==
  LET states == [fwd EXCEPT ![g] = [@ EXCEPT !.st = state,
                                              !.status = status]]
      d == [Cur EXCEPT !.fwd = states, !.fwdErrors[g] = err]
      all == PromiseAll(states, g)
  IN  IF dataState # "forwarding" \/ all = "pending"
      THEN SetData(d)
      ELSE IF all = "fulfilled"
      THEN SetData(Reply(d, Accepted))
      ELSE SetData(Reply(d, onData_Catch(err)))

\* fetch resolved with a response
FetchResponse ==
  /\ \E g \in DOMAIN fwd, status \in Statuses :
       /\ fwd[g].st = "pending"
       /\ IF ResponseOk(status)
          THEN ForwardSettled(g, "ok", status, <<>>)
          ELSE ForwardSettled(g, "failed", status, HttpError(status))
  /\ UNCHANGED <<msgCount, stream, streamEnded>>
  /\ UNCHANGED <<rtVars, connVars, envVars>>

\* fetch rejected: request timeout or connection error
FetchFailed ==
  /\ \E g \in DOMAIN fwd, kind \in FailureKinds :
       /\ fwd[g].st = "pending"
       /\ ForwardSettled(g, "failed", 0,
                         FetchError(kind, groups[g].webhook.url))
  /\ UNCHANGED <<msgCount, stream, streamEnded>>
  /\ UNCHANGED <<rtVars, connVars, envVars>>

\* the "timeout: config.timeout" of one fetch expires
FetchTimeout ==
  /\ \E g \in DOMAIN fwd :
       /\ fwd[g].st = "pending"
       /\ ForwardSettled(g, "failed", 0,
                         FetchError("timeout", groups[g].webhook.url))
  /\ UNCHANGED <<msgCount, stream, streamEnded>>
  /\ UNCHANGED <<rtVars, connVars, envVars>>

(***************************************************************************)
(* Session specification                                                   *)
(***************************************************************************)
\* an optional value of the YAML file
Absent == [set |-> FALSE, v |-> ""]

Given(v) == [set |-> TRUE, v |-> v]

\* no route loaded yet
NoAuthCall ==
  [set |-> FALSE, auth |-> [user |-> Absent, pass |-> Absent],
   webhook |-> [domains |-> <<>>, url |-> "", authUser |-> "",
                authPass |-> NullPass],
   authorization |-> NoAuthorization]

\* checkDNSBL not yet applied to an address
NoIpCall ==
  [set |-> FALSE, octets |-> <<>>, skipped |-> FALSE, names |-> {}]

\* addSpamHeaders not yet applied
NoHdrCall ==
  [set |-> FALSE, email |-> <<>>, dnsbl |-> CleanResult,
   spam |-> DefaultSpamResult, rejected |-> FALSE, out |-> <<>>]

\* the response parser not yet applied
NoParseCall == [set |-> FALSE, lines |-> <<>>, result |-> DefaultSpamResult]

\* no checkSpamAssassin promise created yet
NoScorer ==
  [st |-> "idle", timer |-> "none", socket |-> "none", events |-> <<>>,
   result |-> DefaultSpamResult]

\* the session object and handler closures of a connection just opened
FreshSession(address) ==
  [remoteAddress |-> address, conn |-> "connecting",
   lookups |-> [z \in Zones |-> "idle"], dnsblChecked |-> NotChecked,
   connectReply |-> NoReply,
   dnsblResult |-> [set |-> FALSE, value |-> CleanResult],
   webhooksByRecipient |-> <<>>, mailFrom |-> NoSender, rcptTo |-> <<>>,
   rcptCount |-> 0, lastRcpt |-> NoRcpt, msgCount |-> 0,
   dataState |-> NoData.dataState, stream |-> "idle", streamEnded |-> FALSE,
   rawEmail |-> NoData.rawEmail, received |-> NoData.received,
   sa |-> NoData.sa, spamResult |-> NoData.spamResult,
   groups |-> NoData.groups, fwd |-> NoData.fwd,
   fwdErrors |-> NoData.fwdErrors, dataReplies |-> NoData.dataReplies,
   scorerCalls |-> 0, deliveryRequests |-> 0]

\* no delivery aggregation applied yet
NoOrderCall == [set |-> FALSE, results |-> <<>>, order |-> <<>>,
                outcome |-> NoReply]

\* no score composition applied yet
NoScoreCall ==
  [set |-> FALSE, daemon |-> DefaultSpamResult,
   cached |-> [set |-> FALSE, value |-> CleanResult],
   final |-> DefaultSpamResult]

RouteIdle ==
  /\ rtDomain = <<>>
  /\ rtPattern = <<>>
  /\ rtWebhooks = <<>>
  /\ rtMatches = "unset"
  /\ rtFound = [set |-> FALSE, match |-> NoMatch, webhook |-> NoWebhook]
  /\ scCall = NoScoreCall
  /\ ordCall = NoOrderCall
  /\ active = 1
  /\ other = FreshSession(IP("8", "8", "8", "8"))
  /\ authCall = NoAuthCall
  /\ ipCall = NoIpCall
  /\ hdrCall = NoHdrCall
  /\ parseCall = NoParseCall
  /\ scorer = NoScorer

SessionStart ==
  /\ conn = "connecting"
  /\ lookups = [z \in Zones |-> "idle"]
  /\ dnsblChecked = NotChecked
  /\ connectReply = NoReply
  /\ dnsblResult = [set |-> FALSE, value |-> CleanResult]
  /\ webhooksByRecipient = <<>>
  /\ mailFrom = NoSender
  /\ rcptTo = <<>>
  /\ rcptCount = 0
  /\ lastRcpt = NoRcpt
  /\ msgCount = 0
  /\ stream = "idle"
  /\ streamEnded = FALSE
  /\ dataState = NoData.dataState
  /\ rawEmail = NoData.rawEmail
  /\ received = NoData.received
  /\ sa = NoData.sa
  /\ spamResult = NoData.spamResult
  /\ groups = NoData.groups
  /\ fwd = NoData.fwd
  /\ fwdErrors = NoData.fwdErrors
  /\ dataReplies = NoData.dataReplies
  /\ scorerCalls = 0
  /\ deliveryRequests = 0

Init ==
  /\ RouteIdle
  /\ config \in [spamCheck : BOOLEAN]
  /\ remoteAddress \in RemoteAddresses
  /\ SessionStart

Next ==
  \/ Connect
  \/ DnsResolved
  \/ DnsFailed
  \/ DnsblTimeout
  \/ MailFrom
  \/ RcptTo
  \/ DataStart
  \/ StreamError
  \/ StreamEnd
  \/ SAConnect
  \/ SAEnd
  \/ SAError
  \/ SATimeout
  \/ FetchResponse
  \/ FetchFailed

Spec == Init /\ [][Next]_vars

\* the session with timers that fire once armed: the 3000 ms timer of
\* checkDNSBL, the 10000 ms timer of checkSpamAssassin and the timeout of
\* each fetch
MaxLiveMsgs == 1

MaxLiveRcpts == 1

LiveNext ==
  \/ Connect
  \/ DnsResolved
  \/ DnsFailed
  \/ DnsblTimeout
  \/ (msgCount < MaxLiveMsgs /\ MailFrom)
  \/ (rcptCount < MaxLiveRcpts /\ RcptTo)
  \/ (msgCount < MaxLiveMsgs /\ DataStart)
  \/ StreamError
  \/ StreamEnd
  \/ SAConnect
  \/ SAEnd
  \/ SAError
  \/ SATimeout
  \/ FetchResponse
  \/ FetchFailed

SpecLive ==
  /\ Init /\ [][LiveNext]_vars
  /\ WF_vars(DnsblTimeout)
  /\ WF_vars(SATimeout)
  /\ WF_vars(FetchTimeout)

(***************************************************************************)
(* Routing specification: matchesDomain and findWebhookForDomain applied   *)
(* to bounded inputs                                                       *)
(***************************************************************************)
RoutePatterns == {<<"a">>, <<"*", ".", "a">>, <<"*">>, <<"b">>}

RouteDomains ==
  {<<"a">>, <<"b">>, <<"b", ".", "a">>, <<"b", "a">>, <<"A">>,
   <<"a", ".", "b">>}

RouteLists ==
  {ws \in SeqsUpTo({MkWebhook(ds, Target1) :
                      ds \in SeqsUpTo(RoutePatterns, MaxPatterns)}, MaxRoutes) :
     Len(ws) >= 1}

RouteInit ==
  /\ RouteIdle
  /\ config = [spamCheck |-> TRUE]
  /\ remoteAddress = IP("8", "8", "8", "8")
  /\ SessionStart

\* matchesDomain on a lower-cased domain, as onRcptTo calls it
MatchStep ==
  /\ rtMatches = "unset"
  /\ ~rtFound.set
  /\ \E d \in StrsUpTo(MaxDomLen), p \in StrsUpTo(MaxPatLen) :
       /\ rtDomain' = d
       /\ rtPattern' = p
       /\ rtMatches' = IF matchesDomain(ToLowerCase(d), p)
                       THEN "true" ELSE "false"
  /\ UNCHANGED <<rtWebhooks, rtFound, scCall, ordCall, active, other, authCall, ipCall,
                 hdrCall>>
  /\ UNCHANGED <<parseCall, scorer>>
  /\ UNCHANGED <<connVars, envVars, dataVars>>

\* findWebhookForDomain on a lower-cased domain and a route list
FindStep ==
  /\ rtMatches = "unset"
  /\ ~rtFound.set
  /\ \E d \in RouteDomains, ws \in RouteLists :
       /\ rtDomain' = d
       /\ rtWebhooks' = ws
       /\ rtFound' = [set |-> TRUE,
                      match |-> findWebhookMatch(ws, ToLowerCase(d)),
                      webhook |-> findWebhookForDomain(ws, ToLowerCase(d))]
  /\ UNCHANGED <<rtPattern, rtMatches, scCall, ordCall, active, other, authCall, ipCall,
                 hdrCall>>
  /\ UNCHANGED <<parseCall, scorer>>
  /\ UNCHANGED <<connVars, envVars, dataVars>>

RouteNext == MatchStep \/ FindStep

SpecRoute == RouteInit /\ [][RouteNext]_vars

(***************************************************************************)
(* Score specification: the score composition of onData applied to        *)
(* bounded daemon results and cached reputation results                    *)
(***************************************************************************)
MaxScore == 12

DaemonTests == {<<>>, <<"BAYES_50">>, <<"BAYES_50", "HTML_MESSAGE">>}

DaemonResults ==
  {[score |-> s, threshold |-> SpamThreshold, tests |-> t] :
     s \in (0 - MaxScore)..MaxScore, t \in DaemonTests}

CachedResults ==
  {[set |-> FALSE, value |-> CleanResult]} \cup
  {[set |-> TRUE, value |-> ResultOf(ListingsOf(lks))] :
     lks \in [Zones -> {"listed", "clean"}]}

ScoreInit ==
  /\ RouteIdle
  /\ config = [spamCheck |-> TRUE]
  /\ remoteAddress = IP("8", "8", "8", "8")
  /\ SessionStart

ScoreStep ==
  /\ ~scCall.set
  /\ \E result \in DaemonResults, cached \in CachedResults :
       scCall' = [set |-> TRUE, daemon |-> result, cached |-> cached,
                  final |-> ComposeScore(result, cached)]
  /\ UNCHANGED <<rtDomain, rtPattern, rtWebhooks, rtMatches, rtFound, ordCall,
                 active, other, authCall, ipCall,
                 hdrCall>>
  /\ UNCHANGED <<parseCall, scorer>>
  /\ UNCHANGED <<connVars, envVars, dataVars>>

ScoreNext == ScoreStep

SpecScore == ScoreInit /\ [][ScoreNext]_vars

(***************************************************************************)
(* Order specification: "await Promise.all(forwardPromises)" and the catch *)
(* block of onData applied to fixed per-group results, the requests        *)
(* completing in a chosen order                                            *)
(***************************************************************************)
MaxGroups == 3

\* how one forwardToWebhook call ends: st, HTTP status, error thrown
GroupResults ==
  {[st |-> "ok", status |-> s, err |-> <<>>] :
     s \in {s \in Statuses : ResponseOk(s)}} \cup
  {[st |-> "failed", status |-> s, err |-> HttpError(s)] :
     s \in {s \in Statuses : ~ResponseOk(s)}} \cup
  {[st |-> "failed", status |-> 0, err |-> FetchError(k, "u1")] :
     k \in FailureKinds}

\* the completion orders of n requests
Orders(n) ==
  {o \in [1..n -> 1..n] : \A i, j \in 1..n : o[i] = o[j] => i = j}

\* the callback argument of onData when the requests complete in this
\* order, from the request at position i on
RECURSIVE SettleInOrder(_, _, _, _)
SettleInOrder(results, order, i, states) ==
  IF i > Len(order) THEN NoReply
  ELSE LET g == order[i]
           now == [states EXCEPT ![g] = [st |-> results[g].st,
                                         status |-> results[g].status]]
           all == PromiseAll(now, g)
       IN  IF all = "pending" THEN SettleInOrder(results, order, i + 1, now)
           ELSE IF all = "fulfilled" THEN Accepted
           ELSE onData_Catch(results[g].err)

OutcomeInOrder(results, order) ==
  SettleInOrder(results, order, 1, [g \in DOMAIN results |-> Pending])

OrderInit ==
  /\ RouteIdle
  /\ config = [spamCheck |-> TRUE]
  /\ remoteAddress = IP("8", "8", "8", "8")
  /\ SessionStart

OrderStep ==
  /\ ~ordCall.set
  /\ \E n \in 1..MaxGroups :
       \E results \in [1..n -> GroupResults], order \in Orders(n) :
         ordCall' = [set |-> TRUE, results |-> results, order |-> order,
                     outcome |-> OutcomeInOrder(results, order)]
  /\ UNCHANGED <<rtDomain, rtPattern, rtWebhooks, rtMatches, rtFound, scCall,
                 active, other, authCall, ipCall,
                 hdrCall>>
  /\ UNCHANGED <<parseCall, scorer>>
  /\ UNCHANGED <<connVars, envVars, dataVars>>

OrderNext == OrderStep

SpecOrder == OrderInit /\ [][OrderNext]_vars

(***************************************************************************)
(* Two sessions: the handlers of the program run for two connections, one  *)
(* event at a time; each handler works on the session object and the       *)
(* closure it was given                                                    *)
(***************************************************************************)
MaxTwoMsgs == 1

MaxTwoRcpts == 1

TwoRcpts == {Addr(<<"a">>, <<"a">>), Addr(<<"b">>, <<"b", ".", "a">>)}

TwoMessages == {<<>>, <<Tok("h"), CRLF, CRLF, Tok("b")>>}

TwoScores == {2, SpamReject}

TwoStatuses == {0, 200}

\* the state of the session whose handlers are running
Snapshot ==
  [remoteAddress |-> remoteAddress, conn |-> conn, lookups |-> lookups,
   dnsblChecked |-> dnsblChecked, connectReply |-> connectReply,
   dnsblResult |-> dnsblResult, webhooksByRecipient |-> webhooksByRecipient,
   mailFrom |-> mailFrom, rcptTo |-> rcptTo, rcptCount |-> rcptCount,
   lastRcpt |-> lastRcpt, msgCount |-> msgCount, dataState |-> dataState,
   stream |-> stream, streamEnded |-> streamEnded, rawEmail |-> rawEmail,
   received |-> received, sa |-> sa, spamResult |-> spamResult,
   groups |-> groups, fwd |-> fwd, fwdErrors |-> fwdErrors,
   dataReplies |-> dataReplies, scorerCalls |-> scorerCalls,
   deliveryRequests |-> deliveryRequests]

\* the session whose state the variables hold becomes s
Resume(s) ==
  /\ remoteAddress' = s.remoteAddress
  /\ conn' = s.conn
  /\ lookups' = s.lookups
  /\ dnsblChecked' = s.dnsblChecked
  /\ connectReply' = s.connectReply
  /\ dnsblResult' = s.dnsblResult
  /\ webhooksByRecipient' = s.webhooksByRecipient
  /\ mailFrom' = s.mailFrom
  /\ rcptTo' = s.rcptTo
  /\ rcptCount' = s.rcptCount
  /\ lastRcpt' = s.lastRcpt
  /\ msgCount' = s.msgCount
  /\ dataState' = s.dataState
  /\ stream' = s.stream
  /\ streamEnded' = s.streamEnded
  /\ rawEmail' = s.rawEmail
  /\ received' = s.received
  /\ sa' = s.sa
  /\ spamResult' = s.spamResult
  /\ groups' = s.groups
  /\ fwd' = s.fwd
  /\ fwdErrors' = s.fwdErrors
  /\ dataReplies' = s.dataReplies
  /\ scorerCalls' = s.scorerCalls
  /\ deliveryRequests' = s.deliveryRequests

Switch_SharedRecipients ==
  /\ active' = 3 - active
  /\ other' = Snapshot
  /\ Resume([other EXCEPT !.webhooksByRecipient = webhooksByRecipient])
  /\ UNCHANGED <<rtDomain, rtPattern, rtWebhooks, rtMatches, rtFound, scCall,
                 ordCall, authCall, ipCall, hdrCall, parseCall, scorer, config>>

\* the next event belongs to the other connection: its handler gets that
\* connection's session object and closure
Switch ==
  /\ active' = 3 - active
  /\ other' = Snapshot
  /\ Resume(other)
  /\ UNCHANGED <<rtDomain, rtPattern, rtWebhooks, rtMatches, rtFound, scCall,
                 ordCall, authCall, ipCall, hdrCall, parseCall, scorer, config>>

TwoInit ==
  /\ RouteIdle
  /\ config = [spamCheck |-> TRUE]
  /\ remoteAddress = IP("8", "8", "8", "8")
  /\ SessionStart

TwoNext ==
  \/ Connect
  \/ DnsResolved
  \/ DnsFailed
  \/ (DnsblTimeout /\ \A z \in Zones : lookups[z] = "pending")
  \/ (msgCount < MaxTwoMsgs /\ MailFrom /\ mailFrom'.address # <<>>)
  \/ (rcptCount < MaxTwoRcpts /\ RcptTo /\ lastRcpt'.address \in TwoRcpts)
  \/ (msgCount < MaxTwoMsgs /\ DataStart)
  \/ StreamError
  \/ (StreamEnd /\ received' \in TwoMessages)
  \/ SAConnect
  \/ (SAEnd /\ sa'.result.score \in TwoScores)
  \/ SAError
  \/ SATimeout
  \/ (FetchResponse /\ \A g \in DOMAIN fwd' : fwd'[g].status \in TwoStatuses)
  \/ (FetchFailed /\ \A g \in DOMAIN fwdErrors' :
                      fwdErrors'[g] # <<>> => Includes(fwdErrors'[g], "timeout"))
  \/ Switch

SpecTwo == TwoInit /\ [][TwoNext]_vars

(***************************************************************************)
(* Authorization specification: a route loaded from its YAML entry and the *)
(* Authorization header forwardToWebhook builds for it                     *)
(***************************************************************************)
MaxAuthLen == 2

AuthChars == {"u", "p", ":"}

RECURSIVE AuthStrs(_)
AuthStrs(n) ==
  IF n = 0 THEN {""}
  ELSE LET shorter == AuthStrs(n - 1)
       IN  shorter \cup {s \o c : s \in shorter, c \in AuthChars}

AuthOptions == {Absent} \cup {Given(v) : v \in AuthStrs(MaxAuthLen)}

\* "x || y" on an optional string: undefined and "" are falsy
OrElse(opt, default) ==
  IF opt.set /\ opt.v # "" THEN opt.v ELSE default

\* webhooks.push({domains, url, authUser, authPass}) for one YAML entry
LoadWebhook(domains, url, auth) ==
  [domains |-> domains, url |-> url,
   authUser |-> OrElse(auth.user, DefaultAuthUser),
   authPass |-> OrElse(auth.pass, NullPass)]

AuthInit ==
  /\ RouteIdle
  /\ config = [spamCheck |-> TRUE]
  /\ remoteAddress = IP("8", "8", "8", "8")
  /\ SessionStart

AuthStep ==
  /\ ~authCall.set
  /\ \E user \in AuthOptions, pass \in AuthOptions :
       LET auth == [user |-> user, pass |-> pass]
           webhook == LoadWebhook(<< <<"a">> >>, "u1", auth)
       IN  authCall' = [set |-> TRUE, auth |-> auth, webhook |-> webhook,
                        authorization |->
                          forwardToWebhook_Authorization(webhook)]
  /\ UNCHANGED <<rtDomain, rtPattern, rtWebhooks, rtMatches, rtFound, scCall,
                 ordCall, active, other, ipCall,
                 hdrCall>>
  /\ UNCHANGED <<parseCall, scorer>>
  /\ UNCHANGED <<connVars, envVars, dataVars>>

AuthNext == AuthStep

SpecAuth == AuthInit /\ [][AuthNext]_vars

(***************************************************************************)
(* Address specification: the "Skip private IPs" test of checkDNSBL        *)
(* applied to dotted-quad addresses                                        *)
(***************************************************************************)
Octets == {0, 1, 2, 10, 16, 31, 127, 168, 172, 192, 200}

\* the dotted-quad text of an address, split at "."
Dotted(octets) == [i \in DOMAIN octets |-> ToString(octets[i])]

IpInit ==
  /\ RouteIdle
  /\ config = [spamCheck |-> TRUE]
  /\ remoteAddress = IP("8", "8", "8", "8")
  /\ SessionStart

IpStep ==
  /\ ~ipCall.set
  /\ \E octets \in [1..4 -> Octets] :
       LET ip == Dotted(octets)
       IN  ipCall' = [set |-> TRUE, octets |-> octets,
                      skipped |-> IsPrivateIP(ip),
                      names |-> IF IsPrivateIP(ip) THEN {}
                                ELSE {LookupName(ip, DNSBL_SERVICES[i]) :
                                        i \in DOMAIN DNSBL_SERVICES}]
  /\ UNCHANGED <<rtDomain, rtPattern, rtWebhooks, rtMatches, rtFound, scCall,
                 ordCall, active, other, authCall,
                 hdrCall>>
  /\ UNCHANGED <<parseCall, scorer>>
  /\ UNCHANGED <<connVars, envVars, dataVars>>

IpNext == IpStep

SpecIp == IpInit /\ [][IpNext]_vars

(***************************************************************************)
(* Header specification: the reject decision of onData and addSpamHeaders  *)
(* applied to bounded messages, scores and reputation results              *)
(***************************************************************************)
MaxMsgLen == 4

HdrMessages == SeqsUpTo({Tok("h"), Tok("b"), CRLF}, MaxMsgLen)

\* threshold is the one the scorer reports in its "Spam:" line
HdrResults ==
  {[score |-> s, threshold |-> th, tests |-> t] :
     s \in (0 - 1)..MaxScore, th \in {SpamThreshold, SpamThreshold + 3},
     t \in {<<>>, <<"BAYES_50">>}}

HdrReputations ==
  {ResultOf(ListingsOf(lks)) : lks \in [Zones -> {"listed", "clean"}]}

HdrInit ==
  /\ RouteIdle
  /\ config = [spamCheck |-> TRUE]
  /\ remoteAddress = IP("8", "8", "8", "8")
  /\ SessionStart

HdrStep ==
  /\ ~hdrCall.set
  /\ \E email \in HdrMessages, spam \in HdrResults,
        dnsbl \in HdrReputations :
       hdrCall' = [set |-> TRUE, email |-> email, dnsbl |-> dnsbl,
                   spam |-> spam, rejected |-> RejectsSpam(spam.score),
                   out |-> addSpamHeaders(email, dnsbl, spam)]
  /\ UNCHANGED <<rtDomain, rtPattern, rtWebhooks, rtMatches, rtFound, scCall,
                 ordCall, active, other, authCall, ipCall>>
  /\ UNCHANGED <<parseCall, scorer>>
  /\ UNCHANGED <<connVars, envVars, dataVars>>

HdrNext == HdrStep

SpecHdr == HdrInit /\ [][HdrNext]_vars

(***************************************************************************)
(* Parser specification: the body of client.on('end') applied to bounded   *)
(* scorer responses                                                        *)
(***************************************************************************)
MaxLines == 4

\* a body line naming exactly one fired test
LOne == Line(FALSE, FALSE, 0, 0, <<"T1">>)

ResponseLines ==
  {LBanner, LStatus(2), LStatus(7), LBadStatus, LBlank, LTests, LOne, LNote}

ParseInit ==
  /\ RouteIdle
  /\ config = [spamCheck |-> TRUE]
  /\ remoteAddress = IP("8", "8", "8", "8")
  /\ SessionStart

ParseStep ==
  /\ ~parseCall.set
  /\ \E lines \in SeqsUpTo(ResponseLines, MaxLines) :
       parseCall' = [set |-> TRUE, lines |-> lines,
                     result |-> ParseResponse(lines)]
  /\ UNCHANGED <<rtDomain, rtPattern, rtWebhooks, rtMatches, rtFound, scCall,
                 ordCall, active, other, authCall, ipCall, hdrCall, scorer>>
  /\ UNCHANGED <<connVars, envVars, dataVars>>

ParseNext == ParseStep

SpecParse == ParseInit /\ [][ParseNext]_vars

(***************************************************************************)
(* Scorer specification: the promise of one checkSpamAssassin call and the *)
(* events of its socket and its timer.  Socket events are allowed in any   *)
(* order the event loop could deliver them, late ones included; the timer  *)
(* fires only while armed.                                                 *)
(***************************************************************************)
MaxRaceLines == 2

RaceResponses ==
  SeqsUpTo({LStatus(2), LStatus(7), LTests, LOne, LBadStatus}, MaxRaceLines)

Event(e, lines) == [e |-> e, lines |-> lines]

Seen(e) == \E i \in DOMAIN scorer.events : scorer.events[i].e = e

PromiseResolve_LastWins(sc, value) ==
  [sc EXCEPT !.st = "settled", !.result = value]

\* resolve(value) of the promise: only the first call settles it
PromiseResolve(sc, value) ==
  IF sc.st = "pending"
  THEN [sc EXCEPT !.st = "settled", !.result = value]
  ELSE sc

RaceInit ==
  /\ RouteIdle
  /\ config = [spamCheck |-> TRUE]
  /\ remoteAddress = IP("8", "8", "8", "8")
  /\ SessionStart

\* the promise is the only state these steps touch
RaceFrame ==
  /\ UNCHANGED <<rtDomain, rtPattern, rtWebhooks, rtMatches, rtFound, scCall,
                 ordCall, active, other, authCall, ipCall, hdrCall,
                 parseCall>>
  /\ UNCHANGED <<connVars, envVars, dataVars>>

\* checkSpamAssassin(rawEmail): net.createConnection and setTimeout
ScorerStart ==
  /\ RaceFrame
  /\ scorer.st = "idle"
  /\ scorer' = [scorer EXCEPT !.st = "pending", !.timer = "armed",
                              !.socket = "connecting"]

\* client.on('connect')
ScorerConnect ==
  /\ RaceFrame
  /\ scorer.socket = "connecting"
  /\ scorer' = [scorer EXCEPT !.socket = "connected",
                              !.events = Append(@, Event("connect", <<>>))]

\* client.on('end'): clearTimeout, parse, resolve
ScorerEnd ==
  /\ RaceFrame
  /\ Seen("connect")
  /\ ~Seen("end")
  /\ scorer.socket \in {"connected", "destroyed"}
  /\ \E lines \in RaceResponses :
       scorer' =
         PromiseResolve(
           [scorer EXCEPT
              !.timer = IF @ = "armed" THEN "cleared" ELSE @,
              !.socket = IF @ = "connected" THEN "ended" ELSE @,
              !.events = Append(@, Event("end", lines))],
           checkSpamAssassin_Resolve("end", lines))

\* client.on('error'): clearTimeout, resolve with the default
ScorerError ==
  /\ RaceFrame
  /\ scorer.socket \in {"connecting", "connected", "ended", "destroyed"}
  /\ ~Seen("error")
  /\ scorer' =
       PromiseResolve(
         [scorer EXCEPT
            !.timer = IF @ = "armed" THEN "cleared" ELSE @,
            !.socket = "errored",
            !.events = Append(@, Event("error", <<>>))],
         checkSpamAssassin_Resolve("error", <<>>))

\* the 10000 ms timer: client.destroy(), resolve with the default
ScorerTimeout ==
  /\ RaceFrame
  /\ scorer.timer = "armed"
  /\ scorer' =
       PromiseResolve(
         [scorer EXCEPT
            !.timer = "fired",
            !.socket = "destroyed",
            !.events = Append(@, Event("timeout", <<>>))],
         checkSpamAssassin_Resolve("timeout", <<>>))

RaceNext ==
  \/ ScorerStart
  \/ ScorerConnect
  \/ ScorerEnd
  \/ ScorerError
  \/ ScorerTimeout

SpecRace == RaceInit /\ [][RaceNext]_vars

(***************************************************************************)
(* Properties                                                              *)
(***************************************************************************)
Delivered2xx(g) == fwd[g].status >= 200 /\ fwd[g].status <= 299

\* C1: a message dispatched to at least one group is reported accepted
\* exactly when every group's request returned a 2xx status; one failed
\* group makes the message not accepted whatever the other groups did.
C1_AcceptedIffAll2xx ==
  Len(groups) >= 1 =>
    /\ (Accepted \in Range(dataReplies)) <=>
         (\A g \in DOMAIN fwd : Delivered2xx(g))
    /\ (\E g \in DOMAIN fwd : fwd[g].st = "failed") =>
         /\ Len(dataReplies) = 1
         /\ dataReplies[1] # Accepted

C1_Witness ==
  /\ Len(groups) = 2
  /\ \E g, h \in DOMAIN fwd :
       /\ fwd[g].st = "failed"
       /\ Delivered2xx(h)
  /\ Len(dataReplies) = 1
  /\ dataReplies[1] # Accepted

\* C2 (as claimed): whenever a group's delivery fails, by a non-2xx
\* response, a timeout or a connection error, the reply to the sender is
\* transient (4xx) and never permanent (5xx).
C2_FailureIsTransient ==
  (\E g \in DOMAIN fwd : fwd[g].st = "failed") =>
    /\ Len(dataReplies) = 1
    /\ IsTransient(dataReplies[1])
    /\ ~IsPermanent(dataReplies[1])

\* C3: a final score at or above the reject threshold rejects the message
\* permanently and no delivery request is issued for it.
C3_SpamRejectedBeforeDispatch ==
  (sa.st = "resolved" /\ spamResult.score >= SpamReject) =>
    /\ dataReplies = <<Err(550, "Message rejected as spam")>>
    /\ IsPermanent(dataReplies[1])
    /\ groups = <<>>
    /\ fwd = <<>>

C3_Witness ==
  /\ sa.st = "resolved"
  /\ spamResult.score = SpamReject
  /\ dataReplies = <<Err(550, "Message rejected as spam")>>

\* C4: with spam checking on, a remote address found listed at connect is
\* rejected permanently before any sender, recipient or data stage; the
\* scorer is never invoked and no delivery request is made on that
\* connection.
C4_ListedRejectedAtConnect ==
  (config.spamCheck /\ dnsblChecked.how # "none"
     /\ dnsblChecked.value.isListed) =>
    /\ IsPermanent(connectReply)
    /\ conn = "closed"
    /\ ~mailFrom.set
    /\ rcptCount = 0
    /\ msgCount = 0
    /\ scorerCalls = 0
    /\ deliveryRequests = 0

C4_Witness ==
  /\ config.spamCheck
  /\ dnsblChecked.value.isListed
  /\ connectReply = Err(550, "IP address blacklisted")

\* C5: checkDNSBL always resolves; a lookup that failed or had not finished
\* at the timeout counts as not listed, and no connection is rejected
\* unless some lookup resolved.
C5_DnsblFailOpen ==
  /\ dnsblChecked.how # "reject"
  /\ \A i \in DOMAIN dnsblChecked.value.listings :
       lookups[dnsblChecked.value.listings[i]] = "listed"
  /\ dnsblChecked.value.isListed =>
       \E z \in Zones : lookups[z] = "listed"
  /\ connectReply # NoReply /\ connectReply # Accepted =>
       \E z \in Zones : lookups[z] = "listed"

C5_Witness ==
  /\ dnsblChecked.how = "resolve"
  /\ remoteAddress = <<"not", "an", "ip">>
  /\ \E z \in Zones : lookups[z] = "failed"
  /\ \E z \in Zones : lookups[z] = "pending"
  /\ connectReply = Accepted

\* C6 (as claimed): for a non-private address, a zone whose lookup resolved
\* makes the result listed with that zone in listings and the connection is
\* rejected, whatever the other lookups do, even if they never finish
\* before the timeout.
C6_ResolvedZoneAlwaysListed ==
  (dnsblChecked.how # "none" /\ ~IsPrivateIP(remoteAddress)) =>
    \A z \in Zones :
      lookups[z] = "listed" =>
        /\ dnsblChecked.value.isListed
        /\ z \in Range(dnsblChecked.value.listings)
        /\ IsPermanent(connectReply)

\* C7 (as claimed): on a connection error, on the timeout, or on a response
\* whose status line cannot be parsed, checkSpamAssassin yields score 0
\* with an empty test list, and the message is not rejected for its score.
C7_ScorerFailOpen ==
  (sa.st = "resolved" /\ (sa.cause \in {"error", "timeout"} \/ ~sa.parsable))
    =>
    /\ sa.result.score = 0
    /\ sa.result.tests = <<>>
    /\ Err(550, "Message rejected as spam") \notin Range(dataReplies)

\* whether some pattern of route i matches domain d
RouteMatches(ws, i, d) ==
  \E j \in DOMAIN ws[i].domains : matchesDomain(d, ws[i].domains[j])

\* C8: findWebhookForDomain returns the first route, in declaration order,
\* one of whose patterns matches (the first such pattern of that route),
\* and no route when no pattern of any route matches.
C8_FirstMatchingRoute ==
  rtFound.set =>
    LET ws == rtWebhooks
        d == ToLowerCase(rtDomain)
        m == rtFound.match
    IN  IF \A i \in DOMAIN ws : ~RouteMatches(ws, i, d)
        THEN m.route = 0 /\ rtFound.webhook = NoWebhook
        ELSE /\ m.route \in DOMAIN ws
             /\ RouteMatches(ws, m.route, d)
             /\ \A i \in 1..(m.route - 1) : ~RouteMatches(ws, i, d)
             /\ m.pattern \in DOMAIN ws[m.route].domains
             /\ matchesDomain(d, ws[m.route].domains[m.pattern])
             /\ \A j \in 1..(m.pattern - 1) :
                  ~matchesDomain(d, ws[m.route].domains[j])
             /\ rtFound.webhook = ws[m.route]

C8_Witness ==
  /\ rtFound.set
  /\ Len(rtWebhooks) = 2
  /\ rtWebhooks[1] # rtWebhooks[2]
  /\ RouteMatches(rtWebhooks, 1, ToLowerCase(rtDomain))
  /\ RouteMatches(rtWebhooks, 2, ToLowerCase(rtDomain))
  /\ rtFound.match.route = 1
  /\ rtFound.webhook = rtWebhooks[1]

\* d ends with "." followed by the part of p after its first two characters
EndsWithDotBase(d, p) ==
  \E k \in DOMAIN d :
     /\ d[k] = "."
     /\ Len(d) - k = Len(p) - 2
     /\ \A i \in 1..(Len(p) - 2) : d[k + i] = p[i + 2]

IsBase(d, p) ==
  /\ Len(d) = Len(p) - 2
  /\ \A i \in DOMAIN d : d[i] = p[i + 2]

\* C9: matchesDomain(d, p) holds exactly when p = d, or p is "*", or p is
\* "*.base" and d is base or ends with ".base"; a pattern without wildcard
\* never matches another literal, "ba" does not match "*.a", and a pattern
\* with an upper-case letter does not match the lower-cased domain.
C9_MatchesDomainExactly ==
  rtMatches # "unset" =>
    LET d == ToLowerCase(rtDomain)
        p == rtPattern
        wild == Len(p) >= 2 /\ p[1] = "*" /\ p[2] = "."
    IN  /\ (rtMatches = "true") <=>
              \/ p = d
              \/ p = <<"*">>
              \/ wild /\ (IsBase(d, p) \/ EndsWithDotBase(d, p))
        /\ (\A i \in DOMAIN p : p[i] # "*") /\ p # d => rtMatches = "false"
        /\ d = <<"b", "a">> /\ p = <<"*", ".", "a">> => rtMatches = "false"
        /\ (\E i \in DOMAIN p : p[i] = "A") => rtMatches = "false"

C9_Witness ==
  /\ rtMatches = "false"
  /\ rtDomain = <<"b", "a">>
  /\ rtPattern = <<"*", ".", "a">>

\* the part of an address after its only "@"
DomainOf(a) ==
  LET k == CHOOSE i \in DOMAIN a : a[i] = "@"
  IN  [i \in 1..(Len(a) - k) |-> a[k + i]]

ExactlyOneAt(a) == Cardinality({i \in DOMAIN a : a[i] = "@"}) = 1

RoutesMatching(d) == {i \in DOMAIN Webhooks : RouteMatches(Webhooks, i, d)}

Target(w) == [url |-> w.url, authUser |-> w.authUser, authPass |-> w.authPass]

\* C10: a recipient whose lower-cased domain matches no route is rejected
\* permanently and the recipient-to-target mapping stays as it was; one
\* whose domain matches is accepted and exactly address -> first matching
\* target is recorded, whatever was accepted or rejected before it.
C10_RcptFrame ==
  [][ (rcptCount' = rcptCount + 1 /\ ExactlyOneAt(lastRcpt'.address)) =>
        LET a == lastRcpt'.address
            matching == RoutesMatching(ToLowerCase(DomainOf(a)))
        IN  IF matching = {}
            THEN /\ IsPermanent(lastRcpt'.reply)
                 /\ webhooksByRecipient' = webhooksByRecipient
                 /\ rcptTo' = rcptTo
            ELSE /\ lastRcpt'.reply = Accepted
                 /\ DOMAIN webhooksByRecipient' =
                      DOMAIN webhooksByRecipient \cup {a}
                 /\ Target(webhooksByRecipient'[a]) =
                      Target(Webhooks[CHOOSE i \in matching :
                                        \A j \in matching : i <= j])
                 /\ \A b \in DOMAIN webhooksByRecipient \ {a} :
                      webhooksByRecipient'[b] = webhooksByRecipient[b]
                 /\ a \in Range(rcptTo')
    ]_vars

C10_Witness ==
  /\ rcptCount = 2
  /\ IsPermanent(lastRcpt.reply)
  /\ ExactlyOneAt(lastRcpt.address)
  /\ DOMAIN webhooksByRecipient # {}
  /\ Len(rcptTo) = 1
  /\ lastRcpt.address \notin DOMAIN webhooksByRecipient

\* C11: an address that does not contain exactly one "@" is rejected
\* permanently as an invalid address, before any routing, and nothing is
\* recorded for it.
C11_InvalidAddressRejected ==
  [][ (rcptCount' = rcptCount + 1 /\ ~ExactlyOneAt(lastRcpt'.address)) =>
        /\ lastRcpt'.reply = Err(550, "Invalid recipient address")
        /\ IsPermanent(lastRcpt'.reply)
        /\ webhooksByRecipient' = webhooksByRecipient
        /\ rcptTo' = rcptTo
    ]_vars

C11_Witness ==
  /\ lastRcpt.address = <<"a", "@", "a", "@", "a">>
  /\ lastRcpt.reply = Err(550, "Invalid recipient address")
  /\ lastRcpt.address \notin DOMAIN webhooksByRecipient

\* forwardEmail passed its validation and built the groups of the message
Dispatched == rawEmail # <<>>

GroupMembers(g) == Range(groups[g].recipients)

GroupsOf(r) == {g \in DOMAIN groups : r \in GroupMembers(g)}

\* C12: the groups built by forwardEmail partition the accepted recipients
\* of the message: no group is empty, every accepted recipient is in
\* exactly one group (once), and the groups together hold exactly the
\* accepted recipients.
C12_GroupsPartition ==
  Dispatched =>
    /\ \A g \in DOMAIN groups : groups[g].recipients # <<>>
    /\ \A r \in Range(rcptTo) :
         /\ Cardinality(GroupsOf(r)) = 1
         /\ \A g \in GroupsOf(r) :
              Cardinality({i \in DOMAIN groups[g].recipients :
                             groups[g].recipients[i] = r}) = 1
    /\ UNION {GroupMembers(g) : g \in DOMAIN groups} = Range(rcptTo)

C12_Witness ==
  /\ Dispatched
  /\ Len(rcptTo) = 2
  /\ Len(groups) = 1
  /\ GroupMembers(1) = Range(rcptTo)

\* C13: two accepted recipients share a group exactly when their targets
\* agree on url, authUser and authPass; the same url with another password
\* gives separate groups, and equal targets of different routes share one.
C13_SameGroupIffSameTarget ==
  Dispatched =>
    \A r1, r2 \in Range(rcptTo) :
       LET t1 == webhooksByRecipient[r1]
           t2 == webhooksByRecipient[r2]
       IN  (GroupsOf(r1) \cap GroupsOf(r2) # {}) <=>
             (t1.url = t2.url /\ t1.authUser = t2.authUser
                /\ t1.authPass = t2.authPass)

C13_Witness ==
  /\ Dispatched
  /\ Len(groups) = 2
  /\ groups[1].webhook.url = groups[2].webhook.url
  /\ groups[1].webhook.authPass # groups[2].webhook.authPass

DistinctTargets ==
  {Target(webhooksByRecipient[r]) : r \in Range(rcptTo)}

\* C14: a dispatched message causes exactly one delivery request per
\* distinct {url, authUser, authPass} among its accepted recipients, all
\* issued when forwardEmail starts and none afterwards.
C14_OneRequestPerTarget ==
  [][ /\ (~Dispatched /\ Dispatched') =>
           /\ deliveryRequests' - deliveryRequests =
                Cardinality(DistinctTargets)
           /\ Len(fwd') = Cardinality(DistinctTargets)
           /\ Len(groups') = Len(fwd')
      /\ deliveryRequests' # deliveryRequests => (~Dispatched /\ Dispatched')
    ]_vars

C14_Witness ==
  /\ Dispatched
  /\ Len(rcptTo) = 2
  /\ Target(webhooksByRecipient[rcptTo[1]]) =
       Target(webhooksByRecipient[rcptTo[2]])
  /\ msgCount = 1
  /\ deliveryRequests = 1

\* C15: a recipient rejected in the recipient stage is in no delivery group
\* and causes no request, while the accepted ones are delivered: with
\* a@a accepted (route 1, Target1) and a@ab rejected, exactly one request is
\* made, to Target1, for the group {a@a}.
C15_RejectedNeverDelivered ==
  Dispatched =>
    /\ \A g \in DOMAIN groups : \A r \in GroupMembers(g) :
         /\ ExactlyOneAt(r)
         /\ RoutesMatching(ToLowerCase(DomainOf(r))) # {}
         /\ r \in Range(rcptTo)
    /\ IsPermanent(lastRcpt.reply) =>
         \A g \in DOMAIN groups : lastRcpt.address \notin GroupMembers(g)
    /\ (rcptTo = <<Addr(<<"a">>, <<"a">>)>>
          /\ lastRcpt.address = Addr(<<"a">>, <<"a", "b">>)) =>
         /\ Len(fwd) = 1
         /\ Len(groups) = 1
         /\ groups[1].recipients = <<Addr(<<"a">>, <<"a">>)>>
         /\ Target(groups[1].webhook) = Target1

C15_Witness ==
  /\ Dispatched
  /\ rcptTo = <<Addr(<<"a">>, <<"a">>)>>
  /\ lastRcpt.address = Addr(<<"a">>, <<"a", "b">>)
  /\ IsPermanent(lastRcpt.reply)
  /\ Len(fwd) = 1
  /\ msgCount = 1
  /\ deliveryRequests = 1

\* the data stage still waits for an event that will resume it
StagePending ==
  \/ dataState = "streaming" /\ stream = "open"
  \/ dataState = "scoring" /\ sa.st \in {"connecting", "connected"}
  \/ dataState = "forwarding" /\ \E g \in DOMAIN fwd : fwd[g].st = "pending"

\* C16: in every interleaving of stream end, stream error, scorer
\* completion and delivery completions, the callback of a data stage is
\* never invoked twice, a stage without an outcome still waits for an
\* event, a finished stage has exactly one outcome, and every outcome is
\* accepted, a permanent rejection or a transient rejection.
C16_ExactlyOneOutcome ==
  /\ Len(dataReplies) <= 1
  /\ \A i \in DOMAIN dataReplies :
       \/ dataReplies[i] = Accepted
       \/ IsPermanent(dataReplies[i])
       \/ IsTransient(dataReplies[i])
  /\ dataState = "done" <=> Len(dataReplies) = 1
  /\ dataState \in {"streaming", "scoring", "forwarding"} => StagePending

C16_Witness ==
  /\ stream = "closed"
  /\ sa.st = "resolved"
  /\ Len(fwd) = 2
  /\ \A g \in DOMAIN fwd : fwd[g].st # "pending"
  /\ \E g \in DOMAIN fwd : fwd[g].st = "failed"
  /\ Len(dataReplies) = 1

HasSeparator(email) ==
  \E i \in 1..(Len(email) - 1) : email[i] = CRLF /\ email[i + 1] = CRLF

\* the 'end' handler ran on a body that is empty or has no separator
BadBodyEnded ==
  stream = "ended" /\ (received = <<>> \/ ~HasSeparator(received))

\* C17: every policy rejection is permanent (5xx): a listed remote address
\* at connect, a recipient whose domain has no route, an empty body, a body
\* without header/body separator, a final score at or above the reject
\* threshold.
C17_PolicyRejectionsPermanent ==
  /\ (config.spamCheck /\ dnsblChecked.how # "none"
        /\ dnsblChecked.value.isListed) => IsPermanent(connectReply)
  /\ (lastRcpt # NoRcpt /\ ExactlyOneAt(lastRcpt.address)
        /\ RoutesMatching(ToLowerCase(DomainOf(lastRcpt.address))) = {}) =>
       IsPermanent(lastRcpt.reply)
  /\ BadBodyEnded =>
       (Len(dataReplies) = 1 /\ IsPermanent(dataReplies[1]))
  /\ (sa.st = "resolved" /\ spamResult.score >= SpamReject) =>
       (Len(dataReplies) = 1 /\ IsPermanent(dataReplies[1]))

C17_Witness ==
  /\ lastRcpt.address = Addr(<<"a">>, <<"a", "b">>)
  /\ IsPermanent(lastRcpt.reply)
  /\ stream = "ended"
  /\ received = <<>>
  /\ dataReplies = <<Err(550, "Empty message")>>

\* C18: when the stream ends with an empty body or a body without
\* CRLF CRLF, the message is rejected permanently in that step, the scorer
\* is not invoked and no delivery request is made, then or later for that
\* message.
C18_BadBodyRejectedBeforeScoring ==
  [][ /\ (stream = "open" /\ stream' = "ended"
            /\ (received' = <<>> \/ ~HasSeparator(received'))) =>
           /\ Len(dataReplies') = 1
           /\ IsPermanent(dataReplies'[1])
           /\ dataState' = "done"
           /\ sa' = SaIdle
           /\ scorerCalls' = scorerCalls
           /\ deliveryRequests' = deliveryRequests
      /\ dataState = "done" =>
           (scorerCalls' = scorerCalls /\ deliveryRequests' = deliveryRequests)
    ]_vars

C18_Witness ==
  /\ config.spamCheck
  /\ stream = "ended"
  /\ received = <<Tok("h"), CRLF, Tok("b")>>
  /\ dataReplies = <<Err(550, "Malformed message: missing headers")>>
  /\ sa = SaIdle
  /\ msgCount = 1
  /\ scorerCalls = 0
  /\ deliveryRequests = 0

\* the 'end' handler ran for a message without accepted recipients
NoRecipientsEnded == stream = "ended" /\ Len(rcptTo) = 0

ListedZoneCount(cached) ==
  IF cached.set THEN Len(cached.value.listings) ELSE 0

\* C20: the composed score is the daemon score plus 3 for each zone of the
\* cached reputation result; it does not decrease when the number of
\* listed zones grows; with at least one listed zone one test token naming
\* the listed zones is appended to the tests, otherwise the tests are the
\* daemon's.
C20_ScoreComposition ==
  scCall.set =>
    LET n == ListedZoneCount(scCall.cached)
    IN  /\ scCall.final.score = scCall.daemon.score + 3 * n
        /\ \A c \in CachedResults :
             ListedZoneCount(c) >= n =>
               ComposeScore(scCall.daemon, c).score >= scCall.final.score
        /\ n = 0 => scCall.final.tests = scCall.daemon.tests
        /\ n >= 1 =>
             /\ Len(scCall.final.tests) = Len(scCall.daemon.tests) + 1
             /\ SubSeq(scCall.final.tests, 1, Len(scCall.daemon.tests)) =
                  scCall.daemon.tests
             /\ scCall.final.tests[Len(scCall.final.tests)] \in
                  {"DNSBL_LISTED(zen.spamhaus.org)",
                   "DNSBL_LISTED(bl.spamcop.net)",
                   "DNSBL_LISTED(zen.spamhaus.org,bl.spamcop.net)"}
             /\ \A z \in Zones :
                  (z \in Range(scCall.cached.value.listings)) <=>
                    (scCall.final.tests[Len(scCall.final.tests)] \in
                       {"DNSBL_LISTED(" \o z \o ")",
                        "DNSBL_LISTED(zen.spamhaus.org,bl.spamcop.net)"})

C20_Witness ==
  /\ scCall.set
  /\ scCall.daemon.score = 4
  /\ ListedZoneCount(scCall.cached) = 2
  /\ scCall.final.score = SpamReject
  /\ Len(scCall.final.tests) = Len(scCall.daemon.tests) + 1

\* C21: with timers that fire, a connect stage waiting for the reputation
\* lookups eventually reports accept or reject, and a data stage whose
\* stream ended eventually reports its one outcome, whatever the DNS
\* servers, the scorer and the delivery endpoints do.
C21_StagesTerminate ==
  /\ (conn = "dnsbl") ~> (connectReply # NoReply /\ conn # "dnsbl")
  /\ (stream = "ended") ~> (dataState = "done" /\ Len(dataReplies) = 1)

C21_Witness ==
  /\ \E z \in Zones : lookups[z] = "pending"
  /\ conn = "open"
  /\ sa.st = "resolved"
  /\ sa.cause = "timeout"
  /\ \E g \in DOMAIN fwd : Includes(fwdErrors[g], "timeout")
  /\ dataReplies = <<Err(451, "Temporary failure, please retry")>>

\* C22 (as claimed): for fixed per-group results the outcome reported to
\* the sender is the same for every completion order of the group
\* requests.
C22_OutcomeOrderIndependent ==
  ordCall.set =>
    \A o \in Orders(Len(ordCall.results)) :
       OutcomeInOrder(ordCall.results, o) = ordCall.outcome

\* the state of session i of the two
Sess(i) == IF active = i THEN Snapshot ELSE other

\* C23: no event of one session changes the other session's state
\* (recipient-to-target mapping, cached reputation result, message buffer,
\* delivery groups, reported outcome and the rest), handing the processor
\* to the other session changes neither, and no step changes the
\* configuration.
C23_SessionsIsolated ==
  [][ /\ config' = config
      /\ active' = active => Sess(3 - active)' = Sess(3 - active)
      /\ active' # active => (Sess(1)' = Sess(1) /\ Sess(2)' = Sess(2))
    ]_vars

C23_Witness ==
  /\ other.dataState = "forwarding"
  /\ other.rcptTo = <<Addr(<<"a">>, <<"a">>)>>
  /\ rcptTo = <<Addr(<<"b">>, <<"b", ".", "a">>)>>
  /\ lookups # other.lookups
  /\ dataReplies = <<Accepted>>
  /\ other.dataReplies = <<>>

\* session.dnsblResult || { isListed: false, listings: [] }
CachedOrClean == IF dnsblResult.set THEN dnsblResult.value ELSE CleanResult

StagesInSequence ==
  /\ sa.sent \in {<<>>, received}
  /\ sa.st = "connected" => sa.sent = received
  /\ (fwd # <<>> /\ config.spamCheck) => sa.st = "resolved"
  /\ \A g \in DOMAIN fwd : fwd[g].body = rawEmail
  /\ fwd # <<>> =>
       rawEmail = IF config.spamCheck
                  THEN addSpamHeaders(received, CachedOrClean, spamResult)
                  ELSE received

\* C24: no delivery request is issued before the scorer round trip of the
\* message has completed (or failed open); the scorer is sent the bytes as
\* received; every group's request carries the same buffer, the
\* header-augmented one when scoring ran and the received one otherwise;
\* no later step changes the body of an issued request.
C24_StagesRunInSequence ==
  [][ /\ StagesInSequence'
      /\ \A g \in DOMAIN fwd \cap DOMAIN fwd' : fwd'[g].body = fwd[g].body
      /\ deliveryRequests' # deliveryRequests =>
           (config.spamCheck => (sa.st # "resolved" /\ sa'.st = "resolved"))
    ]_vars

C24_Witness ==
  /\ config.spamCheck
  /\ Len(fwd) = 2
  /\ sa.cause = "end"
  /\ fwd[1].body = fwd[2].body
  /\ fwd[1].body # received
  /\ fwd[1].st = "ok"
  /\ fwd[2].st = "pending"

Configured(opt) == opt.set /\ opt.v # ""

\* C25: the request to a target carries an Authorization header exactly
\* when a password was configured for the target; the header is Basic with
\* the base64 of user:pass, the user being 'actionmailbox' when none was
\* configured.
C25_AuthorizationIffPassword ==
  authCall.set =>
    /\ authCall.authorization.present <=> Configured(authCall.auth.pass)
    /\ authCall.authorization.present =>
         /\ authCall.authorization.scheme = "Basic"
         /\ authCall.authorization.base64Of =
              (IF Configured(authCall.auth.user)
               THEN authCall.auth.user.v ELSE "actionmailbox")
              \o ":" \o authCall.auth.pass.v

C25_Witness ==
  /\ authCall.set
  /\ ~authCall.auth.user.set
  /\ authCall.auth.pass = Given("p:")
  /\ authCall.authorization.present
  /\ authCall.authorization.base64Of = "actionmailbox:p:"

\* 127.0.0.0/8, 10.0.0.0/8, 172.16.0.0/12, 192.168.0.0/16
InPrivateRanges(o) ==
  \/ o[1] = 127
  \/ o[1] = 10
  \/ o[1] = 172 /\ o[2] >= 16 /\ o[2] <= 31
  \/ o[1] = 192 /\ o[2] = 168

\* C26 (as claimed): an address in a loopback or private range is never
\* looked up against a reputation zone: checkDNSBL returns the clean
\* result for it without a lookup.
C26_PrivateNeverLookedUp ==
  (ipCall.set /\ InPrivateRanges(ipCall.octets)) => ipCall.skipped

IsSpamHeader(t) ==
  t.k \in {"X-Spam-Score", "X-Spam-Status", "X-Spam-Tests", "X-Spam-DNSBL"}

\* the message without its X-Spam-* lines, a line being the header and the
\* CRLF that ends it
RECURSIVE StripSpamLines(_)
StripSpamLines(m) ==
  IF Len(m) = 0 THEN <<>>
  ELSE IF IsSpamHeader(m[1])
  THEN IF Len(m) >= 2 /\ m[2] = CRLF
       THEN StripSpamLines(SubSeq(m, 3, Len(m)))
       ELSE StripSpamLines(Tail(m))
  ELSE <<m[1]>> \o StripSpamLines(Tail(m))

\* C27 (as claimed): for a message with a header/body separator,
\* deleting the inserted X-Spam-* lines from the augmented message gives
\* back the original message: header block and body are unchanged.
C27_AugmentationOnlyInserts ==
  (hdrCall.set /\ HasSeparator(hdrCall.email)) =>
    StripSpamLines(hdrCall.out) = hdrCall.email

HeadersNamed(m, name) == {i \in DOMAIN m : m[i].k = name}

\* C28: in an augmented message X-Spam-Status is Yes exactly when the
\* final score is at least the configured flag threshold, whatever
\* threshold the scorer reported; X-Spam-DNSBL is present exactly when the
\* reputation result is listed; a score from the flag threshold up to, but
\* below, the reject threshold is flagged Yes and not rejected.
C28_StatusAndDnsblHeaders ==
  (hdrCall.set /\ HasSeparator(hdrCall.email)) =>
    /\ Cardinality(HeadersNamed(hdrCall.out, "X-Spam-Status")) = 1
    /\ \A i \in HeadersNamed(hdrCall.out, "X-Spam-Status") :
         /\ hdrCall.out[i].v[1] \in {"Yes", "No"}
         /\ hdrCall.out[i].v[1] = "Yes" <=> hdrCall.spam.score >= SpamThreshold
    /\ HeadersNamed(hdrCall.out, "X-Spam-DNSBL") # {} <=> hdrCall.dnsbl.isListed
    /\ (hdrCall.spam.score >= SpamThreshold
          /\ hdrCall.spam.score < SpamReject) =>
         /\ ~hdrCall.rejected
         /\ \A i \in HeadersNamed(hdrCall.out, "X-Spam-Status") :
              hdrCall.out[i].v[1] = "Yes"

C28_Witness ==
  /\ hdrCall.set
  /\ HasSeparator(hdrCall.email)
  /\ hdrCall.spam.score = 7
  /\ hdrCall.spam.threshold = 8
  /\ hdrCall.dnsbl.isListed
  /\ ~hdrCall.rejected
  /\ \E i \in DOMAIN hdrCall.out :
       hdrCall.out[i].k = "X-Spam-Status" /\ hdrCall.out[i].v[1] = "Yes"
  /\ \E i \in DOMAIN hdrCall.out : hdrCall.out[i].k = "X-Spam-DNSBL"

\* C29: addSpamHeaders returns its input unchanged when the message has no
\* CRLF CRLF, for every score and every reputation result.
C29_NoSeparatorUnchanged ==
  (hdrCall.set /\ ~HasSeparator(hdrCall.email)) => hdrCall.out = hdrCall.email

C29_Witness ==
  /\ hdrCall.set
  /\ hdrCall.email = <<Tok("h"), CRLF, Tok("b"), CRLF>>
  /\ hdrCall.dnsbl.isListed
  /\ hdrCall.spam.score = MaxScore
  /\ hdrCall.out = hdrCall.email

WellFormedResult(r) ==
  /\ r.isListed <=> r.listings # <<>>
  /\ Range(r.listings) \subseteq {"zen.spamhaus.org", "bl.spamcop.net"}

\* C30: every result checkDNSBL produces has isListed true exactly when
\* listings is non-empty, and lists configured zones only; the session's
\* stored result is written at most once, while the connection is being
\* accepted, with the result just produced, and no later step changes it.
C30_ReputationResultStable ==
  [][ /\ dnsblChecked'.how # "none" => WellFormedResult(dnsblChecked'.value)
      /\ dnsblResult'.set => WellFormedResult(dnsblResult'.value)
      /\ dnsblResult' # dnsblResult =>
           /\ ~dnsblResult.set
           /\ dnsblResult'.set
           /\ conn \in {"connecting", "dnsbl"}
           /\ conn' = "open"
           /\ dnsblResult'.value = dnsblChecked'.value
    ]_vars

C30_Witness ==
  /\ dnsblResult.set
  /\ dnsblResult.value = dnsblChecked.value
  /\ \E z \in Zones : lookups[z] = "failed"
  /\ msgCount = 2
  /\ dataState = "done"

\* the first line the status pattern matches, 0 when there is none
FirstStatusLine(lines) ==
  LET hits == {i \in DOMAIN lines : lines[i].matched}
  IN  IF hits = {} THEN 0 ELSE CHOOSE i \in hits : \A j \in hits : i <= j

\* the first comma-containing line after line si, 0 when there is none
NextCommaLine(lines, si) ==
  LET hits == {i \in DOMAIN lines : i > si /\ Len(lines[i].parts) >= 2}
  IN  IF hits = {} THEN 0 ELSE CHOOSE i \in hits : \A j \in hits : i <= j

\* a body line after the status line that names fired tests
ListsTests(lines, si) ==
  \E i \in DOMAIN lines : i > si /\ lines[i] \in {LTests, LOne}

\* C31 (as claimed): the score is the number in the first line matching the
\* status pattern; the test list is the comma-split, trimmed content of the
\* next comma-containing line after that status line, never a line before
\* it; and a response that lists tests yields a non-empty test list.
C31_ScoreAndTestsParsed ==
  parseCall.set =>
    LET lines == parseCall.lines
        si == FirstStatusLine(lines)
        ti == NextCommaLine(lines, si)
    IN  /\ parseCall.result.score = IF si = 0 THEN 0 ELSE lines[si].score
        /\ parseCall.result.tests =
             IF si = 0 \/ ti = 0 THEN <<>> ELSE NonEmptyParts(lines[ti].parts)
        /\ (si # 0 /\ ListsTests(lines, si)) => parseCall.result.tests # <<>>

\* the bytes written to the scorer so far
Wire == sa.head \o sa.sent

\* directive and version, Content-length: N, an empty line, N message bytes
RequestWellFormed ==
  LET n == Len(received)
  IN  /\ Len(Wire) = 5 + n
      /\ Wire[1] = [k |-> "SYMBOLS", v |-> <<"SPAMC/1.5">>]
      /\ Wire[2] = CRLF
      /\ Wire[3] = [k |-> "Content-length", v |-> <<ToString(n)>>]
      /\ Wire[4] = CRLF
      /\ Wire[5] = CRLF
      /\ SubSeq(Wire, 6, Len(Wire)) = received

\* C32: the scorer request is the fixed directive and protocol version, a
\* Content-length header whose value is the length of the message, an empty
\* line and then exactly that many message bytes; nothing is written before
\* the connection is established, and the request is complete when a
\* response is interpreted.
C32_RequestFraming ==
  [][ /\ (sa.st = "connecting")' => (Wire = <<>>)'
      /\ (sa.st = "connected")' => RequestWellFormed'
      /\ (sa.st # "resolved" /\ (sa.st = "resolved" /\ sa.cause = "end")')
           => (sa.st = "connected" /\ RequestWellFormed) ]_vars

C32_Witness ==
  /\ sa.st = "connected"
  /\ Len(received) = 4
  /\ Len(Wire) = 9

\* C33 (as claimed): the outcome of a dispatched message is reported to the
\* sender only after every group's delivery request has finished; no
\* request is still in flight when the outcome is reported.
C33_OutcomeAfterAllSettled ==
  (Len(groups) >= 1 /\ Len(dataReplies) >= 1) =>
    \A g \in DOMAIN fwd : fwd[g].st # "pending"

\* the data stage of a message whose stream failed first
AbandonedAfterError ==
  /\ dataReplies = <<Err(451, "Stream error")>>
  /\ IsTransient(dataReplies[1])
  /\ sa = SaIdle
  /\ groups = <<>>
  /\ fwd = <<>>

\* C34: a stream error before the end reports one transient 451 failure and
\* abandons the remaining stages: no scorer call and no delivery request is
\* made for that message even if an end event follows; a stream error after
\* the end event adds no second outcome.
C34_StreamErrorAbandons ==
  [][ /\ (stream = "errored")' => AbandonedAfterError'
      /\ (stream = "errored" /\ stream' = "closed") =>
           /\ AbandonedAfterError'
           /\ scorerCalls' = scorerCalls
           /\ deliveryRequests' = deliveryRequests
      /\ (stream = "ended" /\ stream' = "closed") =>
           dataReplies' = dataReplies
      /\ Len(dataReplies') <= 1 ]_vars

C34_Witness ==
  /\ stream = "closed"
  /\ streamEnded
  /\ dataReplies = <<Err(451, "Stream error")>>
  /\ sa = SaIdle
  /\ msgCount = 2

CarriesDnsblHeader(m) == \E i \in DOMAIN m : m[i].k = "X-Spam-DNSBL"

StaleRecipients == DOMAIN webhooksByRecipient \ Range(rcptTo)

\* C36: the delivery groups of a message hold only recipients accepted for
\* that message; an entry of the session mapping left by an earlier message
\* adds neither a recipient nor a delivery request to a later message.
C36_GroupsFromCurrentEnvelope ==
  /\ \A g \in DOMAIN groups : GroupMembers(g) \subseteq Range(rcptTo)
  /\ \A g \in DOMAIN groups : GroupMembers(g) \cap StaleRecipients = {}
  /\ Len(fwd) = Len(groups)
  /\ Len(groups) <= Len(rcptTo)
  /\ \A g \in DOMAIN groups :
       \E i \in DOMAIN rcptTo :
          Target(groups[g].webhook) = Target(webhooksByRecipient[rcptTo[i]])

C36_Witness ==
  /\ msgCount = 2
  /\ StaleRecipients # {}
  /\ Len(groups) = 1
  /\ \E r \in StaleRecipients :
       Target(webhooksByRecipient[r]) # Target(groups[1].webhook)
  /\ dataReplies = <<Accepted>>

\* the sender stage accepted the empty (null) sender for this transaction
NullSender == mailFrom.set /\ mailFrom.address = <<>>

\* the 'end' handler ran on a well-formed body of a null-sender message
NullSenderEnded ==
  NullSender /\ stream = "ended" /\ received # <<>> /\ HasSeparator(received)

\* C37: the sender stage accepts the empty sender like any other, but a
\* message whose envelope sender is empty is never dispatched: it is
\* rejected at the data stage with a permanent 550 failure, after scoring
\* when spam checking is on, even when its recipients were accepted and its
\* score is below the reject threshold.
C37_NullSenderRejectedAtData ==
  [][ /\ NullSender' =>
           /\ groups' = <<>>
           /\ fwd' = <<>>
           /\ ~Dispatched'
           /\ deliveryRequests' = deliveryRequests
           /\ Accepted \notin Range(dataReplies')
      /\ NullSenderEnded' =>
           /\ dataState' \in {"scoring", "done"}
           /\ config.spamCheck => (sa.st # "idle")'
           /\ (dataState' = "done"
                 /\ ~(sa.st = "resolved" /\ spamResult.score >= SpamReject)')
                => /\ dataReplies' = <<Err(550, "Failed to process message")>>
                   /\ IsPermanent(dataReplies'[1])
                   /\ config.spamCheck => (sa.st = "resolved")' ]_vars

C37_Witness ==
  /\ NullSenderEnded
  /\ Len(rcptTo) = 2
  /\ sa.st = "resolved"
  /\ sa.result.score = 2
  /\ dataReplies = <<Err(550, "Failed to process message")>>

\* the events that call resolve
Deciding == {"end", "error", "timeout"}

DecidingEvents(events) == {i \in DOMAIN events : events[i].e \in Deciding}

\* C38: the result of one scorer round trip is decided exactly once, by the
\* first of response-end, connection-error and timeout; events that occur
\* afterwards never change the score or test list, and the timer does not
\* fire after end or error.
C38_ResultDecidedOnce ==
  [][ /\ scorer.st = "settled" =>
           (scorer'.st = "settled" /\ scorer'.result = scorer.result)
      /\ (scorer'.st = "settled") <=> (DecidingEvents(scorer'.events) # {})
      /\ scorer'.st = "settled" =>
           LET ds == DecidingEvents(scorer'.events)
               first == CHOOSE i \in ds : \A j \in ds : i <= j
               ev == scorer'.events[first]
           IN  scorer'.result = IF ev.e = "end"
                                THEN ParseResponse(ev.lines)
                                ELSE DefaultSpamResult
      /\ scorer.timer \in {"cleared", "fired"} =>
           scorer'.timer = scorer.timer ]_vars

C38_Witness ==
  /\ scorer.st = "settled"
  /\ scorer.result = DefaultSpamResult
  /\ \E i, j, k \in DOMAIN scorer.events :
       /\ i < j /\ j < k
       /\ scorer.events[i].e = "timeout"
       /\ scorer.events[j].e = "end"
       /\ ParseResponse(scorer.events[j].lines).score = 7
       /\ scorer.events[k].e = "error"

\* C39: with spam checking disabled no reputation lookup is made at
\* connect, the scorer is never invoked, no message is rejected for its
\* score, and every group is sent exactly the bytes received, without
\* X-Spam-* headers.
C39_DisabledSpamCheckIsInert ==
  ~config.spamCheck =>
    /\ \A z \in Zones : lookups[z] = "idle"
    /\ dnsblChecked = NotChecked
    /\ ~dnsblResult.set
    /\ conn # "dnsbl"
    /\ scorerCalls = 0
    /\ sa = SaIdle
    /\ dataState # "scoring"
    /\ Err(550, "Message rejected as spam") \notin Range(dataReplies)
    /\ Dispatched => rawEmail = received
    /\ \A g \in DOMAIN fwd :
         /\ fwd[g].body = received
         /\ \A i \in DOMAIN fwd[g].body : ~IsSpamHeader(fwd[g].body[i])

C39_Witness ==
  /\ ~config.spamCheck
  /\ ~IsPrivateIP(remoteAddress)
  /\ conn = "open"
  /\ Len(fwd) = 2
  /\ \A g \in DOMAIN fwd : fwd[g].st = "ok" /\ fwd[g].body = received
  /\ dataReplies = <<Accepted>>

\* C40 (as claimed): every address outside the loopback and private ranges
\* is looked up in every configured reputation zone, under the name made of
\* its reversed octets and the zone; the private-address shortcut never
\* exempts a public address.
C40_PublicAlwaysLookedUp ==
  (ipCall.set /\ ~InPrivateRanges(ipCall.octets)) =>
    /\ ~ipCall.skipped
    /\ \A z \in Zones :
         LookupName(Dotted(ipCall.octets), z) \in ipCall.names

====
